---- MODULE Spec2Model ----
(***************************************************************************)
(* Model of the AAD engine of CompFinance: the block-list arenas, the      *)
(* Tape that composes four of them, the Node propagation routines and the  *)
(* Number type that records onto the thread-local tape and drives the      *)
(* reverse sweeps.  Values are integers; +, - and * are exact on them.     *)
(***************************************************************************)
EXTENDS Integers, Sequences, FiniteSets, TLC

(***************************************************************************)
(* Bounds of the model.                                                    *)
(***************************************************************************)
\* nodes a freely chosen recording may put on a tape
MaxNodes == 2
\* rewind(), rewindToMark() and clear() calls in one run
MaxResets == 1
\* slots per block of the node list (16384 in the source)
BLOCKSIZE == 1
\* slots per block of the derivative and argument-pointer lists (65536)
DATASIZE == 3
\* slots per block of the multi-adjoint list (32768)
ADJSIZE == 3
\* Node::numAdj: width of the adjoint vectors in multi-output mode
numAdj == 2

\* values of the leaves: of the scripted and of the free recordings
LeafVals == {3, 5}
FreeLeafVals == {3}
\* adjoint seeds written by the caller before a static sweep
SeedVals == {0 - 3, 2}

Threads == {1, 2}
TapeIds == {1, 2}
Eras == {0, 1}

Null == 0 - 1
NoMark == <<Null, Null>>
NullPtr == [k |-> "null", a |-> Null]

(***************************************************************************)
(* blocklist<T, N>: a chain of blocks of N slots, a cursor (cur, next)     *)
(* and a mark.  Addresses are cur * N + next.                              *)
(***************************************************************************)
BLInit == [nblocks |-> 1, cur |-> 0, next |-> 0, mark |-> NoMark]

\* move to the next block (chaining a new one when the current block is
\* the last) when fewer than k slots are left in the current block
BLNextBlock(bl, N, k) ==
    IF N - bl.next < k
    THEN [bl EXCEPT !.cur = bl.cur + 1, !.next = 0,
                    !.nblocks = IF bl.cur + 1 = bl.nblocks
                                THEN bl.nblocks + 1 ELSE bl.nblocks]
    ELSE bl

\* emplace_back_multi(k) (emplace_back is the case k = 1)
BLEmplaceAt(b, N, k) ==
    [bl |-> [b EXCEPT !.next = b.next + k], addr |-> b.cur * N + b.next]
BLEmplace(bl, N, k) == BLEmplaceAt(BLNextBlock(bl, N, k), N, k)

BLRewind(bl) == [bl EXCEPT !.cur = 0, !.next = 0]

BLClear(bl) == BLInit
\* blocks clear() releases: all, except possibly one reserved block
BLClearFreed(bl, kept) == IF kept THEN bl.nblocks - 1 ELSE bl.nblocks

BLSetMark(bl) == [bl EXCEPT !.mark = <<bl.cur, bl.next>>]

BLRewindToMark(bl) == [bl EXCEPT !.cur = bl.mark[1], !.next = bl.mark[2]]

\* position of end() and of mark() in insertion order (single emplace_back
\* never skips a slot, so positions of the node list are its addresses)
BLEnd(bl, N) == bl.cur * N + bl.next
BLMark(bl, N) == bl.mark[1] * N + bl.mark[2]
BLBegin == 0

\* find: the position of the element at address p, end() when absent
BLFind(bl, N, p) == IF p >= 0 /\ p < BLEnd(bl, N) THEN p ELSE BLEnd(bl, N)

\* memset(v): every slot in use, up to the cursor, is overwritten with v
BLMemset(bl, N, mem, v) ==
    [a \in DOMAIN mem |-> IF a < BLEnd(bl, N) THEN v ELSE mem[a]]

\* memory of a list: one cell per slot of its blocks
Cells(nblocks, N) == 0 .. (nblocks * N - 1)
Grow(mem, nblocks, N, fresh) ==
    [a \in Cells(nblocks, N) |-> IF a \in DOMAIN mem THEN mem[a] ELSE fresh]

(***************************************************************************)
(* Node and Tape.                                                          *)
(***************************************************************************)
FreshNode == [n |-> 0, mAdjoint |-> 0, pAdjoints |-> Null,
              pDerivatives |-> Null, pAdjPtrs |-> Null, built |-> FALSE]

\* Node::Node(N): the arity is set, the scalar adjoint starts at zero
NodeCtor(N) == [n |-> N, mAdjoint |-> 0, pAdjoints |-> Null,
                pDerivatives |-> Null, pAdjPtrs |-> Null, built |-> TRUE]

TapeInit ==
    [era |-> 0, freed |-> 0,
     myAdjointsMulti |-> BLInit, myDers |-> BLInit,
     myArgPtrs |-> BLInit, myNodes |-> BLInit,
     adjMem  |-> [a \in Cells(1, ADJSIZE) |-> 0],
     derMem  |-> [a \in Cells(1, DATASIZE) |-> 0],
     argMem  |-> [a \in Cells(1, DATASIZE) |-> NullPtr],
     nodeMem |-> [a \in Cells(1, BLOCKSIZE) |-> FreshNode]]

TapeSize(t) == BLEnd(t.myNodes, BLOCKSIZE)

\* Tape::recordNode<N>() under the flag m = Tape::multi
\* the numAdj adjoints placed at addr start at zero
\* a recordNode that leaves the adjoint slots as it finds them
KeepAdjoints(mem, addr) == mem
ZeroAdjoints(mem, addr) ==
    [a \in DOMAIN mem |-> IF a >= addr /\ a < addr + numAdj THEN 0 ELSE mem[a]]
RecordNodeAt(t, m, N, en, ea, ed, ep) ==
    [tape |->
       [t EXCEPT
          !.myNodes = en.bl,
          !.nodeMem = [Grow(t.nodeMem, en.bl.nblocks, BLOCKSIZE, FreshNode)
                          EXCEPT ![en.addr] =
                             [NodeCtor(N) EXCEPT
                                !.pAdjoints = IF m THEN ea.addr ELSE Null,
                                !.pDerivatives = IF N > 0 THEN ed.addr ELSE Null,
                                !.pAdjPtrs = IF N > 0 THEN ep.addr ELSE Null]],
          !.myAdjointsMulti = IF m THEN ea.bl ELSE @,
          !.adjMem = IF m
                     THEN ZeroAdjoints(Grow(t.adjMem, ea.bl.nblocks, ADJSIZE, 0), ea.addr)
                     ELSE @,
          !.myDers = IF N > 0 THEN ed.bl ELSE @,
          !.derMem = IF N > 0
                     THEN Grow(t.derMem, ed.bl.nblocks, DATASIZE, 0)
                     ELSE @,
          !.myArgPtrs = IF N > 0 THEN ep.bl ELSE @,
          !.argMem = IF N > 0
                     THEN Grow(t.argMem, ep.bl.nblocks, DATASIZE, NullPtr)
                     ELSE @],
     node |-> en.addr]
RecordNode(t, m, N) ==
    RecordNodeAt(t, m, N,
                 BLEmplace(t.myNodes, BLOCKSIZE, 1),
                 BLEmplace(t.myAdjointsMulti, ADJSIZE, numAdj),
                 BLEmplace(t.myDers, DATASIZE, N),
                 BLEmplace(t.myArgPtrs, DATASIZE, N))

\* the scalar adjoint of every node on the tape is set to zero
ZeroScalars(t) ==
    [a \in DOMAIN t.nodeMem |->
       IF a < TapeSize(t) THEN [t.nodeMem[a] EXCEPT !.mAdjoint = 0]
       ELSE t.nodeMem[a]]

\* a resetAdjoints that takes the single-output branch whatever the flag
ResetAdjointsScalarOnly(t, m) == [t EXCEPT !.nodeMem = ZeroScalars(t)]

\* Tape::resetAdjoints
ResetAdjoints(t, m) ==
    IF m
    THEN [t EXCEPT !.adjMem = BLMemset(t.myAdjointsMulti, ADJSIZE, @, 0)]
    ELSE [t EXCEPT !.nodeMem = ZeroScalars(t)]

\* Tape::clear: all four lists are cleared; e is the era of the storage
\* the lists hold afterwards (the old era when each list keeps its first
\* block); freed counts the blocks released so far
TapeClear(t, e) ==
    [era |-> e,
     freed |-> t.freed + BLClearFreed(t.myAdjointsMulti, e = t.era)
                       + BLClearFreed(t.myDers, e = t.era)
                       + BLClearFreed(t.myArgPtrs, e = t.era)
                       + BLClearFreed(t.myNodes, e = t.era),
     myAdjointsMulti |-> BLClear(t.myAdjointsMulti),
     myDers |-> BLClear(t.myDers),
     myArgPtrs |-> BLClear(t.myArgPtrs),
     myNodes |-> BLClear(t.myNodes),
     adjMem  |-> [a \in Cells(1, ADJSIZE) |-> 0],
     derMem  |-> [a \in Cells(1, DATASIZE) |-> 0],
     argMem  |-> [a \in Cells(1, DATASIZE) |-> NullPtr],
     nodeMem |-> [a \in Cells(1, BLOCKSIZE) |-> FreshNode]]

\* a rewind that wipes in every build
TapeRewindAlwaysWipes(t, m, dbg, e) == TapeClear(t, e)

\* Tape::rewind: a wipe in a debug build, a rewind of the lists otherwise
TapeRewind(t, m, dbg, e) ==
    IF dbg
    THEN TapeClear(t, e)
    ELSE [t EXCEPT
            !.myAdjointsMulti = IF m THEN BLRewind(@) ELSE @,
            !.myDers = BLRewind(@),
            !.myArgPtrs = BLRewind(@),
            !.myNodes = BLRewind(@)]

\* a mark that leaves out the list of argument pointers
TapeMarkNoArgPtrs(t, m) ==
    [t EXCEPT
       !.myAdjointsMulti = IF m THEN BLSetMark(@) ELSE @,
       !.myDers = BLSetMark(@),
       !.myNodes = BLSetMark(@)]

\* Tape::mark
TapeMark(t, m) ==
    [t EXCEPT
       !.myAdjointsMulti = IF m THEN BLSetMark(@) ELSE @,
       !.myDers = BLSetMark(@),
       !.myArgPtrs = BLSetMark(@),
       !.myNodes = BLSetMark(@)]

\* a rewindToMark that leaves out the list of derivatives
TapeRewindToMarkNoDers(t, m) ==
    [t EXCEPT
       !.myAdjointsMulti = IF m THEN BLRewindToMark(@) ELSE @,
       !.myArgPtrs = BLRewindToMark(@),
       !.myNodes = BLRewindToMark(@)]

\* Tape::rewindToMark
TapeRewindToMark(t, m) ==
    [t EXCEPT
       !.myAdjointsMulti = IF m THEN BLRewindToMark(@) ELSE @,
       !.myDers = BLRewindToMark(@),
       !.myArgPtrs = BLRewindToMark(@),
       !.myNodes = BLRewindToMark(@)]

\* Tape::begin, end, markIt, find
TapeBegin(t) == BLBegin
TapeEnd(t) == BLEnd(t.myNodes, BLOCKSIZE)
TapeMarkIt(t) == BLMark(t.myNodes, BLOCKSIZE)
TapeFind(t, p) == BLFind(t.myNodes, BLOCKSIZE, p)

(***************************************************************************)
(* Node::propagateOne and Node::propagateAll.                              *)
(***************************************************************************)
\* *ptr += x, ptr pointing at a scalar adjoint or at an adjoint-vector cell
AddTo(t, ptr, off, x) ==
    IF ptr.k = "node"
    THEN [t EXCEPT !.nodeMem[ptr.a].mAdjoint = @ + x]
    ELSE [t EXCEPT !.adjMem[ptr.a + off] = @ + x]

\* a loop of propagateOne that returns after the first argument it handles
PropOneLoopFirstOnly(t, p, i) ==
    IF i >= t.nodeMem[p].n THEN t
    ELSE AddTo(t, t.argMem[t.nodeMem[p].pAdjPtrs + i], 0,
               t.derMem[t.nodeMem[p].pDerivatives + i] * t.nodeMem[p].mAdjoint)

RECURSIVE PropOneLoop(_, _, _)
PropOneLoop(t, p, i) ==
    LET nd == t.nodeMem[p]
    IN  IF i >= nd.n THEN t
        ELSE PropOneLoop(AddTo(t, t.argMem[nd.pAdjPtrs + i], 0,
                               t.derMem[nd.pDerivatives + i] * nd.mAdjoint),
                         p, i + 1)

\* a propagateOne that assigns to the argument adjoints where the code adds
PropagateOneAssigns(t, p) ==
    LET nd == t.nodeMem[p]
        put(u, i) == LET ptr == u.argMem[nd.pAdjPtrs + i]
                         x == u.derMem[nd.pDerivatives + i] * nd.mAdjoint
                     IN  IF ptr.k = "node"
                         THEN [u EXCEPT !.nodeMem[ptr.a].mAdjoint = x]
                         ELSE [u EXCEPT !.adjMem[ptr.a] = x]
    IN  IF nd.n = 0 \/ nd.mAdjoint = 0 THEN t
        ELSE IF nd.n = 1 THEN put(t, 0) ELSE put(put(t, 0), 1)

\* a propagateOne that adds derivative + adjoint where the code multiplies
PropagateOneSums(t, p) ==
    LET nd == t.nodeMem[p]
        put(u, i) == AddTo(u, u.argMem[nd.pAdjPtrs + i], 0,
                           u.derMem[nd.pDerivatives + i] + nd.mAdjoint)
    IN  IF nd.n = 0 \/ nd.mAdjoint = 0 THEN t
        ELSE IF nd.n = 1 THEN put(t, 0) ELSE put(put(t, 0), 1)

\* a propagateOne that zeroes the derivatives it has used
PropagateOneWipesDers(t, p) ==
    IF t.nodeMem[p].n = 0 \/ t.nodeMem[p].mAdjoint = 0 THEN t
    ELSE [PropOneLoop(t, p, 0) EXCEPT
             !.derMem = [a \in DOMAIN @ |->
                            IF /\ a >= t.nodeMem[p].pDerivatives
                               /\ a < t.nodeMem[p].pDerivatives + t.nodeMem[p].n
                            THEN 0 ELSE @[a]]]

PropagateOne(t, p) ==
    LET nd == t.nodeMem[p]
    IN  IF nd.n = 0 \/ nd.mAdjoint = 0 THEN t ELSE PropOneLoop(t, p, 0)

RECURSIVE PropAllInner(_, _, _, _)
PropAllInner(t, p, i, j) ==
    LET nd == t.nodeMem[p]
    IN  IF j >= numAdj THEN t
        ELSE PropAllInner(AddTo(t, t.argMem[nd.pAdjPtrs + i], j,
                                t.derMem[nd.pDerivatives + i]
                                    * t.adjMem[nd.pAdjoints + j]),
                          p, i, j + 1)

RECURSIVE PropAllLoop(_, _, _)
PropAllLoop(t, p, i) ==
    IF i >= t.nodeMem[p].n THEN t
    ELSE PropAllLoop(PropAllInner(t, p, i, 0), p, i + 1)

\* a propagateAll that returns as soon as one of the adjoints is zero
PropagateAllAnyZero(t, p) ==
    LET nd == t.nodeMem[p]
    IN  IF nd.n = 0 \/ \E j \in 0 .. (numAdj - 1) : t.adjMem[nd.pAdjoints + j] = 0
        THEN t ELSE PropAllLoop(t, p, 0)

PropagateAll(t, p) ==
    LET nd == t.nodeMem[p]
    IN  IF nd.n = 0 \/ \A j \in 0 .. (numAdj - 1) : t.adjMem[nd.pAdjoints + j] = 0
        THEN t ELSE PropAllLoop(t, p, 0)

(***************************************************************************)
(* The sweeps of Number: the static loops over tape positions.  The        *)
(* result carries the tape and the positions propagated, in order, each    *)
(* with the routine that was invoked on it.                                *)
(***************************************************************************)
RECURSIVE PropagateAdjointsLoop(_, _, _, _)
PropagateAdjointsLoop(t, it, to, vis) ==
    IF it # to
    THEN PropagateAdjointsLoop(PropagateOne(t, it), it - 1, to,
                               Append(vis, <<it, "one">>))
    ELSE [tape |-> PropagateOne(t, it), visited |-> Append(vis, <<it, "one">>)]

RECURSIVE PropagateAdjointsMultiLoop(_, _, _, _)
PropagateAdjointsMultiLoop(t, it, to, vis) ==
    IF it # to
    THEN PropagateAdjointsMultiLoop(PropagateAll(t, it), it - 1, to,
                                    Append(vis, <<it, "all">>))
    ELSE [tape |-> PropagateAll(t, it), visited |-> Append(vis, <<it, "all">>)]

\* a sweep that stops before propagateTo
PropagateAdjointsExclusive(t, from, to) ==
    IF from = to THEN [tape |-> t, visited |-> <<>>]
    ELSE PropagateAdjointsLoop(t, from, to + 1, <<>>)

\* a sweep that dispatches on the flag of the tape (a multi tape is one
\* whose nodes carry an adjoint vector)
PropagateAdjointsByFlag(t, from, to) ==
    IF t.nodeMem[from].pAdjoints # Null
    THEN PropagateAdjointsMultiLoop(t, from, to, <<>>)
    ELSE PropagateAdjointsLoop(t, from, to, <<>>)

\* static Number::propagateAdjoints(propagateFrom, propagateTo)
PropagateAdjoints(t, from, to) == PropagateAdjointsLoop(t, from, to, <<>>)

\* static Number::propagateAdjointsMulti(propagateFrom, propagateTo)
PropagateAdjointsMulti(t, from, to) == PropagateAdjointsMultiLoop(t, from, to, <<>>)

\* Number::adjoint() = a and Number::adjoint(j) = a on the Number's node
SetAdjoint(t, nd, a) == [t EXCEPT !.nodeMem[nd].mAdjoint = a]
SetAdjointMulti(t, nd, j, a) == [t EXCEPT !.adjMem[t.nodeMem[nd].pAdjoints + j] = a]

\* Number::propagateAdjoints(propagateTo): seed 1, find the node, sweep
MemberPropagateAdjoints(t, nd, to) ==
    PropagateAdjoints(SetAdjoint(t, nd, 1), TapeFind(t, nd), to)

\* Number::propagateToStart, propagateToMark, propagateMarkToStart
PropagateToStart(t, nd) == MemberPropagateAdjoints(t, nd, TapeBegin(t))
\* a propagateToMark that stops above the node at the mark
PropagateToMarkAboveMark(t, nd) ==
    MemberPropagateAdjoints(t, nd, IF TapeMarkIt(t) < nd THEN TapeMarkIt(t) + 1
                                   ELSE TapeMarkIt(t))

PropagateToMark(t, nd) == MemberPropagateAdjoints(t, nd, TapeMarkIt(t))
PropagateMarkToStart(t) == PropagateAdjoints(t, TapeMarkIt(t) - 1, TapeBegin(t))

(***************************************************************************)
(* Number: the recording constructors and the operators +, - and *.        *)
(***************************************************************************)
\* the adjoint address a new node stores for an argument node
ArgAdjoint(t, m, arg) ==
    IF m THEN [k |-> "adj", a |-> t.nodeMem[arg].pAdjoints]
    ELSE [k |-> "node", a |-> arg]

\* Number::Number(double), operator=(double), putOnTape: a leaf
NumberLeaf(t, m) == RecordNode(t, m, 0)

\* Number::Number(Node& arg, double): the unary constructor
\* pAdjPtrs[i] of the node just recorded = ptr
SetArgPtr(r, i, ptr) ==
    [tape |-> [r.tape EXCEPT !.argMem[r.tape.nodeMem[r.node].pAdjPtrs + i] = ptr],
     node |-> r.node]
NumberUnaryOn(r, m, arg) == SetArgPtr(r, 0, ArgAdjoint(r.tape, m, arg))
\* a unary constructor that records a node of two arguments
NumberUnaryOfTwo(t, m, arg) == NumberUnaryOn(RecordNode(t, m, 2), m, arg)
NumberUnary(t, m, arg) == NumberUnaryOn(RecordNode(t, m, 1), m, arg)

\* Number::Number(Node& lhs, Node& rhs, double): the binary constructor
NumberBinaryOn(r, m, lhs, rhs) ==
    SetArgPtr(SetArgPtr(r, 0, ArgAdjoint(r.tape, m, lhs)),
              1, ArgAdjoint(r.tape, m, rhs))

\* a binary constructor that stores the adjoint address of lhs only
NumberBinaryLhsOnly(t, m, lhs, rhs) == NumberUnaryOn(RecordNode(t, m, 2), m, lhs)
NumberBinary(t, m, lhs, rhs) == NumberBinaryOn(RecordNode(t, m, 2), m, lhs, rhs)

BinOps == {"add", "sub", "mul"}
MaxMinOps == {"max", "min"}
UnOps == {"addD", "subD", "dSub", "mulD"}

\* fabs(double), and the quotient a / b where it is exact (the operators /
\* are modelled on operands whose quotient and reciprocal are integers)
Abs(a) == IF a < 0 THEN 0 - a ELSE a
Quot(a, b) == CHOOSE q \in (0 - Abs(a)) .. Abs(a) : q * b = a

\* fabs(const Number &): the derivative stored
\* a derivative of fabs that counts zero as positive
FabsDerZeroPositive(a) == IF a >= 0 THEN 1 ELSE 0 - 1
FabsDer(a) == IF a > 0 THEN 1 ELSE 0 - 1

\* value and local derivatives of lhs op rhs on two Numbers
BinValue(op, a, b) ==
    CASE op = "add" -> a + b [] op = "sub" -> a - b [] op = "mul" -> a * b
      [] op = "div" -> Quot(a, b)
      [] op = "max" -> IF a > b THEN a ELSE b
      [] op = "min" -> IF a < b THEN a ELSE b
\* a left derivative of max and min that is 1 on ties also
BinLDerTies(op, a, b) ==
    CASE op = "add" -> 1 [] op = "sub" -> 1 [] op = "mul" -> b
      [] op = "div" -> Quot(1, b)
      [] op = "max" -> IF a >= b THEN 1 ELSE 0
      [] op = "min" -> IF a <= b THEN 1 ELSE 0
BinLDer(op, a, b) ==
    CASE op = "add" -> 1 [] op = "sub" -> 1 [] op = "mul" -> b
      [] op = "div" -> Quot(1, b)
      [] op = "max" -> IF a > b THEN 1 ELSE 0
      [] op = "min" -> IF a < b THEN 1 ELSE 0
\* a right derivative of a - b that is that of a + b
BinRDerSubAsAdd(op, a, b) ==
    CASE op = "add" -> 1 [] op = "sub" -> 1 [] op = "mul" -> a
      [] op = "div" -> (0 - a) * Quot(1, b) * Quot(1, b)
      [] op = "max" -> IF a > b THEN 0 ELSE 1
      [] op = "min" -> IF a < b THEN 0 ELSE 1
BinRDer(op, a, b) ==
    CASE op = "add" -> 1 [] op = "sub" -> 0 - 1 [] op = "mul" -> a
      [] op = "div" -> (0 - a) * Quot(1, b) * Quot(1, b)
      [] op = "max" -> IF a > b THEN 0 ELSE 1
      [] op = "min" -> IF a < b THEN 0 ELSE 1

\* value and local derivative of the mixed operators on a Number of value
\* a and a double d: Number + double (double + Number), Number - double,
\* double - Number, Number * double (double * Number), Number / double,
\* double / Number, max and min of a Number and a double in either order,
\* and of fabs
UnValue(op, a, d) ==
    CASE op = "addD" -> a + d [] op = "subD" -> a - d
      [] op = "dSub" -> d - a [] op = "mulD" -> a * d
      [] op = "divD" -> Quot(a, d) [] op = "dDiv" -> Quot(d, a)
      [] op = "maxD" -> IF a > d THEN a ELSE d
      [] op = "dMax" -> IF a > d THEN a ELSE d
      [] op = "minD" -> IF a < d THEN a ELSE d
      [] op = "dMin" -> IF a < d THEN a ELSE d
      [] op = "fabs" -> Abs(a)
UnDer(op, a, d) ==
    CASE op = "addD" -> 1 [] op = "subD" -> 1
      [] op = "dSub" -> 0 - 1 [] op = "mulD" -> d
      [] op = "divD" -> Quot(1, d) [] op = "dDiv" -> Quot(Quot(0 - d, a), a)
      [] op = "maxD" -> IF a > d THEN 1 ELSE 0
      [] op = "dMax" -> IF a > d THEN 1 ELSE 0
      [] op = "minD" -> IF a < d THEN 1 ELSE 0
      [] op = "dMin" -> IF a < d THEN 1 ELSE 0
      [] op = "fabs" -> FabsDer(a)

\* operator op on two Numbers lhs and rhs (records [value, node, era])
\* pDerivatives[i] of the node just recorded = x
SetDer(r, i, x) ==
    [tape |-> [r.tape EXCEPT !.derMem[r.tape.nodeMem[r.node].pDerivatives + i] = x],
     node |-> r.node]
\* the Number of value v on the node just recorded, on a tape of era e
Result(r, v, e) ==
    [tape |-> r.tape, num |-> [value |-> v, node |-> r.node, era |-> e]]
OperatorBinary(t, m, op, lhs, rhs) ==
    Result(SetDer(SetDer(NumberBinary(t, m, lhs.node, rhs.node),
                         0, BinLDer(op, lhs.value, rhs.value)),
                  1, BinRDer(op, lhs.value, rhs.value)),
           BinValue(op, lhs.value, rhs.value), t.era)

\* operator op on a Number and a double
OperatorUnary(t, m, op, arg, d) ==
    Result(SetDer(NumberUnary(t, m, arg.node), 0, UnDer(op, arg.value, d)),
           UnValue(op, arg.value, d), t.era)

\* explicit Number(val)
OperatorLeaf(t, m, v) == Result(NumberLeaf(t, m), v, t.era)

\* the operator a mixed call resolves to: Number op double (form ND) and
\* double op Number (form DN; double + Number and double * Number return
\* rhs + lhs and rhs * lhs)
MixedOp(op, form) ==
    CASE op = "add" -> "addD"
      [] op = "mul" -> "mulD"
      [] op = "sub" -> IF form = "ND" THEN "subD" ELSE "dSub"
      [] op = "div" -> IF form = "ND" THEN "divD" ELSE "dDiv"
      [] op = "max" -> IF form = "ND" THEN "maxD" ELSE "dMax"
      [] op = "min" -> IF form = "ND" THEN "minD" ELSE "dMin"

\* x op y, where the form tells which of x and y are Numbers (N) and
\* which doubles (D)
OperatorOn(t, m, op, form, x, y) ==
    CASE form = "NN" -> OperatorBinary(t, m, op, x, y)
      [] form = "ND" -> OperatorUnary(t, m, MixedOp(op, form), x, y)
      [] form = "DN" -> OperatorUnary(t, m, MixedOp(op, form), y, x)

\* the operands of x / y have an exact quotient and reciprocal
DivExact(form, x, y) ==
    CASE form = "NN" -> y.value \in {0 - 1, 1}
      [] form = "ND" -> y \in {0 - 1, 1}
      [] form = "DN" -> y.value \in {0 - 1, 1}

\* Number::operator-() const: 0.0 - *this
OperatorNeg(t, m, x) == OperatorOn(t, m, "sub", "DN", 0, x)

\* fabs(const Number &)
OperatorFabs(t, m, x) == OperatorUnary(t, m, "fabs", x, 0)

\* a compound assignment that writes value and derivative into the node
\* of *this
CompoundAssignInPlace(t, m, op, form, x, y) ==
    [tape |-> t,
     num |-> [x EXCEPT !.value = OperatorOn(t, m, op, form, x, y).num.value]]

\* Number::operator+=, -=, *=, /=: *this = *this op arg
CompoundAssign(t, m, op, form, x, y) == OperatorOn(t, m, op, form, x, y)

\* Number::operator=(const double val)
AssignDouble(t, m, x, v) == Result(NumberLeaf(t, m), v, t.era)

\* Number::putOnTape()
PutOnTape(t, m, x) == Result(NumberLeaf(t, m), x.value, t.era)

\* a unary plus that records 0.0 + *this
UnaryPlusRecords(t, m, x) == OperatorOn(t, m, "add", "DN", 0, x)

\* Number::operator+() const: return *this
UnaryPlus(t, m, x) == [tape |-> t, num |-> x]

\* Number::value()
Value(t, m, x) == [tape |-> t, num |-> x.value]

\* the comparison operators, on the values
Compare(cmp, a, b) ==
    CASE cmp = "eq" -> a = b [] cmp = "ne" -> a # b
      [] cmp = "lt" -> a < b [] cmp = "gt" -> a > b
      [] cmp = "le" -> a <= b [] cmp = "ge" -> a >= b
OperatorCompare(t, cmp, form, x, y) ==
    [tape |-> t,
     num |-> CASE form = "NN" -> Compare(cmp, x.value, y.value)
               [] form = "ND" -> Compare(cmp, x.value, y)
               [] form = "DN" -> Compare(cmp, x, y.value)]

\* a node() that is called, and throws, once the node of N arguments has
\* been created
AfterThrowCreated(t, m, N) == RecordNode(t, m, N).tape
\* the tape when node() throws in the arguments of a constructor of a
\* node of N arguments: createNode has not been called
AfterThrow(t, m, N) == t

\* Number::node(): in a debug build the node must be found on the tape
NodeFound(t, num) ==
    num.era = t.era /\ TapeFind(t, num.node) # TapeEnd(t)
\* the Number's node pointer refers to memory that holds a Node object
Dereferenceable(t, num) ==
    num.era = t.era /\ num.node \in DOMAIN t.nodeMem /\ t.nodeMem[num.node].built

(***************************************************************************)
(* State.                                                                  *)
(***************************************************************************)
VARIABLES
    multi,      \* Tape::multi (static)
    debug,      \* the build defines _DEBUG
    tapePtr,    \* Number::tape of each thread
    threads,    \* the worker threads: position, Numbers, tapes accessed
    tapes,      \* the Tape objects
    numbers,    \* the Numbers the caller holds, by node address
    free,       \* the recording is chosen freely (else it follows prog)
    prog,       \* the steps a scripted recording has yet to make
    log,        \* the steps that recorded the nodes now on the main tape
    seeds,      \* the adjoints the caller has set, in order
    pre,        \* the main tape when the first sweep was called
    done,       \* the sweeps completed, in order
    lastOp,     \* the last operation called
    hist,       \* what the arena claims need of the past of the main tape
    call        \* the operation called last: operands, outcome, tape before

vars == <<multi, debug, tapePtr, threads, tapes, numbers, free, prog, log,
          seeds, pre, done, lastOp, hist, call>>

\* a Number::tape that is one static pointer shared by all threads
TapeSlotShared(th) == CHOOSE s \in Threads : \A u \in Threads : s <= u

\* thread_local: every thread has its own Number::tape
TapeSlot(th) == th

\* the tape the Numbers of the main thread record on
Main == tapePtr[TapeSlot(1)]
MainTape == tapes[Main]

Leaf(v) == [act |-> "leaf", op |-> "leaf", a |-> Null, b |-> Null, c |-> v]
Un(op, a, d) == [act |-> "un", op |-> op, a |-> a, b |-> Null, c |-> d]
Bin(op, a, b) == [act |-> "bin", op |-> op, a |-> a, b |-> b, c |-> 0]
MarkStep == [act |-> "mark", op |-> "mark", a |-> Null, b |-> Null, c |-> 0]

\* y = x * x + 2 * x + 1
PolyScript(v) ==
    <<Leaf(v), Bin("mul", 0, 0), Un("mulD", 0, 2), Bin("add", 1, 2), Un("addD", 3, 1)>>
\* pre = x * y; mark(); post = pre * x - y
PhaseScript(v, w) ==
    <<Leaf(v), Leaf(w), Bin("mul", 0, 1), MarkStep, Bin("mul", 2, 0), Bin("sub", 3, 1)>>
\* out0 = x * x; out1 = x + x
TwoScript(v) == <<Leaf(v), Bin("mul", 0, 0), Bin("add", 0, 0)>>
Scripts ==
    {PolyScript(v) : v \in LeafVals} \cup {TwoScript(v) : v \in LeafVals} \cup
    {PhaseScript(v, w) : v \in LeafVals, w \in LeafVals}

NodeIdx == 0 .. (MaxNodes + 2)

FreeSteps ==
    {Leaf(v) : v \in FreeLeafVals}
    \cup {Bin(op, a, b) : op \in BinOps, a \in NodeIdx, b \in NodeIdx}
    \cup {Un(op, a, 2) : op \in {"mulD", "dSub"}, a \in NodeIdx}
ScriptSteps == UNION {{s[i] : i \in 1 .. Len(s)} : s \in Scripts}

\* the cursors (block, slot) of the four lists of a tape
Cursor(bl) == <<bl.cur, bl.next>>
Cursors(t) == [myAdjointsMulti |-> Cursor(t.myAdjointsMulti),
               myDers |-> Cursor(t.myDers),
               myArgPtrs |-> Cursor(t.myArgPtrs),
               myNodes |-> Cursor(t.myNodes)]

\* atMark: the cursors and the size when mark() was last called, and the
\* addresses recordings would have returned then; clean: only recordings
\* and rewindToMark since then; stale: an operand was used whose node was
\* not on the tape; addrs: the address (era, node) each recording of log
\* returned; prev: addrs when rewind(), rewindToMark() or clear() was last
\* called, reset: which of them it was, released: the blocks it released;
\* last: the node of the Number recorded last; resets: the rewind(),
\* rewindToMark() and clear() calls so far
HistInit == [atMark |-> <<>>, clean |-> FALSE, stale |-> FALSE,
             addrs |-> <<>>, prev |-> <<>>, reset |-> "none", released |-> 0,
             last |-> Null, resets |-> 0]

\* no operation has been called
NoCall == [op |-> "none"]

\* blocks released by the operation that took tape t to tape u
Released(t, u) == u.freed - t.freed

\* the addresses (node, derivatives, argument pointers, adjoints) that
\* recordNode returns for recordings of the arities s, in turn, on tape t
Arities == 0 .. 2
AritySeqs == {<<a>> : a \in Arities} \cup {<<a, b>> : a \in Arities, b \in Arities}
RECURSIVE RecordAddrs(_, _, _)
AddrsOf(r) ==
    [node |-> r.node, ders |-> r.tape.nodeMem[r.node].pDerivatives,
     args |-> r.tape.nodeMem[r.node].pAdjPtrs,
     adjs |-> r.tape.nodeMem[r.node].pAdjoints]
RecordAddrsFrom(r, m, s) == <<AddrsOf(r)>> \o RecordAddrs(r.tape, m, s)
RecordAddrs(t, m, s) ==
    IF s = <<>> THEN <<>>
    ELSE RecordAddrsFrom(RecordNode(t, m, Head(s)), m, Tail(s))

\* a worker thread: pc, its position; at, the step of prog it is to record
\* next; numbers, the Numbers it holds; touched, the tapes its steps have
\* read or written; overlap, it took a step while the other was running
ThreadInit == [pc |-> "start", at |-> 1, numbers |-> <<>>, out |-> Null,
               touched |-> {}, overlap |-> FALSE]

InitCommon ==
    /\ tapePtr = [th \in Threads |-> 1]
    /\ threads = [th \in Threads |-> ThreadInit]
    /\ tapes = [i \in TapeIds |-> TapeInit]
    /\ numbers = <<>>
    /\ log = <<>>
    /\ seeds = <<>>
    /\ pre = <<>>
    /\ done = <<>>
    /\ lastOp = "init"
    /\ hist = HistInit
    /\ call = NoCall

\* a step the recording may make now
Allowed(step) ==
    IF free THEN TapeSize(MainTape) < MaxNodes
    ELSE prog # <<>> /\ Head(prog) = step

Operands(step) ==
    CASE step.act = "un" -> {step.a}
      [] step.act = "bin" -> {step.a, step.b}
      [] OTHER -> {}

\* the result of an operator call on tape t, the operands among nums
ApplyOn(t, nums, step) ==
    CASE step.act = "leaf" -> OperatorLeaf(t, multi, step.c)
      [] step.act = "un" ->
            OperatorUnary(t, multi, step.op, nums[step.a], step.c)
      [] step.act = "bin" ->
            OperatorBinary(t, multi, step.op, nums[step.a], nums[step.b])

\* the result of an operator call on the main tape
Apply(step) == ApplyOn(MainTape, numbers, step)

\* a Number is constructed or an operator is called: one node is recorded,
\* unless a debug build finds an operand missing from the tape and throws
Recorded(step, r) ==
    /\ tapes' = [tapes EXCEPT ![Main] = r.tape]
    /\ numbers' = (r.num.node :> r.num) @@ numbers
    /\ hist' = [hist EXCEPT
          !.stale = @ \/ \E h \in Operands(step) :
                            ~NodeFound(MainTape, numbers[h]),
          !.addrs = Append(@, <<r.num.era, r.num.node>>),
          !.last = r.num.node]
Record(step) ==
    /\ step.act # "mark"
    /\ done = <<>> /\ seeds = <<>>
    /\ Allowed(step)
    /\ Operands(step) \subseteq DOMAIN numbers
    /\ IF debug /\ \E h \in Operands(step) : ~NodeFound(MainTape, numbers[h])
       THEN /\ lastOp' = "throw"
            /\ UNCHANGED <<tapes, numbers, log, prog, hist>>
       ELSE /\ \A h \in Operands(step) : Dereferenceable(MainTape, numbers[h])
            /\ Recorded(step, Apply(step))
            /\ log' = Append(log, step)
            /\ prog' = IF free THEN prog ELSE Tail(prog)
            /\ lastOp' = step.act
    /\ UNCHANGED <<multi, debug, call, tapePtr, threads, free, seeds, pre, done>>

\* Tape::mark()
Mark ==
    /\ done = <<>> /\ seeds = <<>>
    /\ free \/ (prog # <<>> /\ Head(prog) = MarkStep)
    /\ tapes' = [tapes EXCEPT ![Main] = TapeMark(MainTape, multi)]
    /\ prog' = IF free THEN prog ELSE Tail(prog)
    /\ lastOp' = "mark"
    /\ hist' = [hist EXCEPT
                   !.atMark = [cursors |-> Cursors(MainTape),
                               size |-> TapeSize(MainTape),
                               next |-> [s \in AritySeqs |->
                                           RecordAddrs(MainTape, multi, s)]],
                   !.clean = TRUE]
    /\ UNCHANGED <<multi, debug, call, tapePtr, threads, numbers, free, log, seeds, pre, done>>

\* the main tape becomes u, the tape after the reset named kind
Wiped(kind, u) ==
    /\ tapes' = [tapes EXCEPT ![Main] = u]
    /\ hist' = [hist EXCEPT !.clean = FALSE, !.atMark = <<>>,
                            !.stale = FALSE,
                            !.addrs = <<>>, !.prev = hist.addrs,
                            !.reset = kind,
                            !.released = Released(MainTape, u),
                            !.resets = @ + 1]

\* Tape::rewind(); e is the era of the storage after a debug build's wipe
Rewind(e) ==
    /\ done = <<>> /\ seeds = <<>>
    /\ free
    /\ hist.resets < MaxResets
    /\ debug \/ e = MainTape.era
    /\ Wiped("rewind", TapeRewind(MainTape, multi, debug, e))
    /\ log' = <<>>
    /\ lastOp' = "rewind"
    /\ UNCHANGED <<multi, debug, call, tapePtr, threads, numbers, free, prog, seeds, pre, done>>

\* Tape::clear(); e is the era of the storage afterwards
Clear(e) ==
    /\ done = <<>> /\ seeds = <<>>
    /\ free
    /\ hist.resets < MaxResets
    /\ Wiped("clear", TapeClear(MainTape, e))
    /\ log' = <<>>
    /\ lastOp' = "clear"
    /\ UNCHANGED <<multi, debug, call, tapePtr, threads, numbers, free, prog, seeds, pre, done>>

\* the main tape becomes u, the tape rewound to the mark at node m
RewoundToMark(u, m) ==
    /\ tapes' = [tapes EXCEPT ![Main] = u]
    /\ hist' = [hist EXCEPT !.addrs = SubSeq(@, 1, m),
                            !.prev = hist.addrs,
                            !.reset = "rewindToMark",
                            !.released = Released(MainTape, u),
                            !.resets = @ + 1]
    /\ log' = SubSeq(log, 1, m)

\* Tape::rewindToMark(), the mark having been set since the last rewind()
\* or clear() (the mark is a position of the present recording)
RewindToMark ==
    /\ done = <<>> /\ seeds = <<>>
    /\ free
    /\ MainTape.myNodes.mark # NoMark
    /\ hist.clean
    /\ hist.resets < MaxResets
    /\ RewoundToMark(TapeRewindToMark(MainTape, multi), TapeMarkIt(MainTape))
    /\ lastOp' = "rewindToMark"
    /\ UNCHANGED <<multi, debug, call, tapePtr, threads, numbers, free, prog, seeds, pre, done>>

\* the Numbers whose node is on the main tape
LiveNumbers == {h \in DOMAIN numbers : NodeFound(MainTape, numbers[h])}

Finish(entry, nd, from, to, r) ==
    /\ tapes' = [tapes EXCEPT ![Main] = r.tape]
    /\ pre' = IF done = <<>> THEN MainTape ELSE pre
    /\ done' = Append(done, [entry |-> entry, node |-> nd, from |-> from,
                             to |-> to, visited |-> r.visited])
    /\ lastOp' = "sweep"
    /\ UNCHANGED <<multi, debug, call, tapePtr, threads, numbers, free, prog, log, seeds, hist>>

\* out.propagateToStart()
CallPropagateToStart(h) ==
    /\ done = <<>> /\ seeds = <<>>
    /\ h \in LiveNumbers
    /\ Finish("propagateToStart", h, h, TapeBegin(MainTape),
              PropagateToStart(MainTape, numbers[h].node))

\* out.propagateToMark(), the mark at or before the node of out
CallPropagateToMark(h) ==
    /\ done = <<>> /\ seeds = <<>>
    /\ h \in LiveNumbers
    /\ MainTape.myNodes.mark # NoMark
    /\ TapeMarkIt(MainTape) <= h
    /\ Finish("propagateToMark", h, h, TapeMarkIt(MainTape),
              PropagateToMark(MainTape, numbers[h].node))

\* out.propagateAdjoints(to)
CallPropagateAdjointsTo(h, to) ==
    /\ done = <<>> /\ seeds = <<>>
    /\ h \in LiveNumbers
    /\ to \in 1 .. h
    /\ Finish("propagateAdjointsTo", h, h, to,
              MemberPropagateAdjoints(MainTape, numbers[h].node, to))

\* Number::propagateMarkToStart(), at least one node before the mark
CallPropagateMarkToStart ==
    /\ seeds = <<>>
    /\ done = <<>> \/ (Len(done) = 1 /\ done[1].entry = "propagateToMark")
    /\ MainTape.myNodes.mark # NoMark
    /\ TapeMarkIt(MainTape) >= 1
    /\ TapeMarkIt(MainTape) <= TapeSize(MainTape)
    /\ Finish("propagateMarkToStart", Null, TapeMarkIt(MainTape) - 1,
              TapeBegin(MainTape), PropagateMarkToStart(MainTape))

\* Number::propagateAdjoints(from, to), from at or after to; when the
\* caller has set an adjoint, from is the node it was set on
\* Number::propagateMarkToStart() with no node before the mark (the mark
\* was set on the empty tape, or never): prev(markIt()) is a position
\* before begin(), the loop invokes propagateOne on it and steps further
\* down and never meets begin(); the behaviour is undefined.  The run
\* ends there: it crashes on the invalid position, or goes on below
\* begin() and may add to the adjoint of a node p of the tape through
\* the pointers it finds there.  call.visited holds the positions
\* propagateOne was invoked on.
CallPropagateMarkToStartNoNode(outcome, p) ==
    /\ done = <<>> /\ seeds = <<>>
    /\ MainTape.myNodes.mark = NoMark \/ TapeMarkIt(MainTape) = 0
    /\ p = Null \/ (outcome = "ranOff" /\ p < TapeSize(MainTape))
    /\ tapes' = IF p = Null THEN tapes
                ELSE [tapes EXCEPT ![Main] =
                         AddTo(MainTape, [k |-> "node", a |-> p], 0, 1)]
    /\ pre' = MainTape
    /\ done' = Append(done, [entry |-> "undefined", node |-> Null,
                             from |-> Null, to |-> TapeBegin(MainTape),
                             visited |-> <<>>])
    /\ call' = [op |-> "propagateMarkToStart", outcome |-> outcome,
                visited |-> <<TapeBegin(MainTape) - 1>>, before |-> MainTape]
    /\ lastOp' = "undefined"
    /\ UNCHANGED <<multi, debug, tapePtr, threads, numbers, free, prog, log,
                   seeds, hist>>

CallPropagateAdjoints(from, to) ==
    /\ done = <<>>
    /\ seeds # <<>> => seeds[1].j = Null /\ seeds[1].node = from
    /\ from < TapeSize(MainTape)
    /\ to \in 0 .. from
    /\ Finish("propagateAdjoints", Null, from, to,
              PropagateAdjoints(MainTape, from, to))

\* Number::propagateAdjointsMulti(from, to) on a tape recorded with multi;
\* when the caller has seeded the outputs, the sweep is over the whole tape
CallPropagateAdjointsMulti(from, to) ==
    /\ done = <<>>
    /\ multi
    /\ seeds # <<>> => /\ Len(seeds) = numAdj /\ seeds[1].j # Null
                      /\ from = TapeSize(MainTape) - 1 /\ to = 0
    /\ from < TapeSize(MainTape)
    /\ to \in 0 .. from
    /\ Finish("propagateAdjointsMulti", Null, from, to,
              PropagateAdjointsMulti(MainTape, from, to))

\* out.adjoint() = a, once, before a sweep
CallSetAdjoint(h, a) ==
    /\ done = <<>> /\ seeds = <<>>
    /\ h \in LiveNumbers
    /\ tapes' = [tapes EXCEPT ![Main] = SetAdjoint(MainTape, numbers[h].node, a)]
    /\ seeds' = Append(seeds, [node |-> h, j |-> Null, a |-> a])
    /\ lastOp' = "seed"
    /\ UNCHANGED <<multi, debug, call, tapePtr, threads, numbers, free, prog, log, pre, done, hist>>

\* out.adjoint(j) = 1 for the outputs j = 0, 1, ... in turn, before a sweep
CallSetAdjointMulti(h, j) ==
    /\ done = <<>>
    /\ multi
    /\ h \in LiveNumbers
    /\ j = Len(seeds) /\ j < numAdj
    /\ \A i \in 1 .. Len(seeds) : seeds[i].j # Null
    /\ tapes' = [tapes EXCEPT ![Main] = SetAdjointMulti(MainTape, numbers[h].node, j, 1)]
    /\ seeds' = Append(seeds, [node |-> h, j |-> j, a |-> 1])
    /\ lastOp' = "seed"
    /\ UNCHANGED <<multi, debug, call, tapePtr, threads, numbers, free, prog, log, pre, done, hist>>

\* it->propagateOne() on the node at position p, called by itself, up to
\* twice in a run, once the caller has set a scalar adjoint
CallPropagateOne(p) ==
    /\ seeds # <<>> /\ seeds[1].j = Null
    /\ Len(done) <= 1
    /\ \A i \in 1 .. Len(done) : done[i].entry = "propagateOne"
    /\ p < TapeSize(MainTape)
    /\ tapes' = [tapes EXCEPT ![Main] = PropagateOne(MainTape, p)]
    /\ pre' = IF done = <<>> THEN MainTape ELSE pre
    /\ done' = Append(done, [entry |-> "propagateOne", node |-> Null, from |-> p,
                             to |-> p, visited |-> <<<<p, "one">>>>])
    /\ call' = [op |-> "propagateOne", node |-> p, before |-> MainTape]
    /\ lastOp' = "propagateOne"
    /\ UNCHANGED <<multi, debug, tapePtr, threads, numbers, free, prog, log, seeds, hist>>

\* Tape::resetAdjoints(), once the caller has set adjoints or has run the
\* static sweeps; no sweep follows it
CallResetAdjoints ==
    /\ done # <<>> \/ seeds # <<>>
    /\ \A i \in 1 .. Len(done) :
           done[i].node = Null /\ done[i].entry \notin {"resetAdjoints", "undefined"}
    /\ tapes' = [tapes EXCEPT ![Main] = ResetAdjoints(MainTape, multi)]
    /\ done' = Append(done, [entry |-> "resetAdjoints", node |-> Null, from |-> Null,
                             to |-> 0, visited |-> <<>>])
    /\ call' = [op |-> "resetAdjoints", node |-> Null, before |-> MainTape]
    /\ lastOp' = "resetAdjoints"
    /\ UNCHANGED <<multi, debug, tapePtr, threads, numbers, free, prog, log, seeds,
                   pre, hist>>

\* a recording of the sweep runs: a step of the script, or a free step
RecordSweep(step) == (free => step \in FreeSteps) /\ Record(step)

\* mark(), called once in a sweep run
MarkOnce == MainTape.myNodes.mark = NoMark /\ Mark

InitSweep ==
    /\ multi \in BOOLEAN
    /\ debug = FALSE
    /\ \/ free = TRUE /\ prog = <<>>
       \/ free = FALSE /\ prog \in Scripts
    /\ InitCommon

NextSweep ==
    \/ \E step \in FreeSteps \cup ScriptSteps : RecordSweep(step)
    \/ MarkOnce
    \/ \E h \in NodeIdx : CallPropagateToStart(h)
    \/ \E h \in NodeIdx : CallPropagateToMark(h)
    \/ \E h \in NodeIdx, to \in NodeIdx : CallPropagateAdjointsTo(h, to)
    \/ CallPropagateMarkToStart
    \/ \E outcome \in {"crashed", "ranOff"}, p \in NodeIdx \cup {Null} :
          CallPropagateMarkToStartNoNode(outcome, p)
    \/ \E from \in NodeIdx, to \in NodeIdx : CallPropagateAdjoints(from, to)
    \/ \E from \in NodeIdx, to \in NodeIdx : CallPropagateAdjointsMulti(from, to)
    \/ \E h \in NodeIdx, a \in SeedVals : CallSetAdjoint(h, a)
    \/ \E h \in NodeIdx, j \in 0 .. (numAdj - 1) : CallSetAdjointMulti(h, j)
    \/ \E p \in NodeIdx : CallPropagateOne(p)
    \/ CallResetAdjoints

SpecSweep == InitSweep /\ [][NextSweep]_vars

(***************************************************************************)
(* The arena: recordings, mark, rewind, rewindToMark and clear, in a       *)
(* release and in a debug build, in single- and in multi-output mode.  The *)
(* caller keeps one Number, x, and records x = Number(3), x = x * 1 and    *)
(* x = max(x, x); after a rewind x is a Number whose node the tape has     *)
(* been rewound past.                                                      *)
(***************************************************************************)
ArenaSteps ==
    {Leaf(v) : v \in FreeLeafVals}
    \cup {Bin("max", a, b) : a \in NodeIdx, b \in NodeIdx}
    \cup {Un("mulD", a, 1) : a \in NodeIdx}

\* a recording of the arena runs: an operation on x, the Number recorded
\* last
RecordArena(step) == Operands(step) \subseteq {hist.last} /\ Record(step)

InitArena ==
    /\ multi \in BOOLEAN
    /\ debug \in BOOLEAN
    /\ free = TRUE /\ prog = <<>>
    /\ InitCommon

NextArena ==
    \/ \E step \in ArenaSteps : RecordArena(step)
    \/ Mark
    \/ \E e \in Eras : Rewind(e)
    \/ RewindToMark
    \/ \E e \in Eras : Clear(e)

SpecArena == InitArena /\ [][NextArena]_vars

(***************************************************************************)
(* Threads: each of two threads points its Number::tape at a Tape of its   *)
(* own, records the steps of prog through it and sweeps from the last      *)
(* Number to the start; the steps of the two interleave freely.  The k-th  *)
(* Number a thread records is the operand k - 1 of its later steps.        *)
(***************************************************************************)
ThreadProgs == {PolyScript(v) : v \in LeafVals} \cup {TwoScript(v) : v \in LeafVals}

\* the Tape object thread th owns
OwnTape(th) == th
\* the tape the Numbers of thread th record on: *Number::tape
ThreadTape(th) == tapePtr[TapeSlot(th)]

Running(th) == threads[th].pc \in {"record", "sweep"}
Overlap(th) == threads[th].overlap \/ \E u \in Threads \ {th} : Running(u)

\* Number::tape = &ownTape
SetTape(th) ==
    /\ threads[th].pc = "start"
    /\ tapePtr' = [tapePtr EXCEPT ![TapeSlot(th)] = OwnTape(th)]
    /\ threads' = [threads EXCEPT ![th].pc = "record"]
    /\ UNCHANGED <<multi, debug, call, tapes, numbers, free, prog, log, seeds, pre,
                   done, lastOp, hist>>

\* the next operator call of thread th
ThreadRecorded(th, me, id, r) ==
    /\ tapes' = [tapes EXCEPT ![id] = r.tape]
    /\ threads' = [threads EXCEPT ![th] =
          [pc |-> IF me.at = Len(prog) THEN "sweep" ELSE "record",
           at |-> me.at + 1,
           numbers |-> ((me.at - 1) :> r.num) @@ me.numbers,
           out |-> me.at - 1,
           touched |-> me.touched \cup {id},
           overlap |-> Overlap(th)]]
ThreadRecord(th) ==
    /\ threads[th].pc = "record"
    /\ ThreadRecorded(th, threads[th], ThreadTape(th),
                      ApplyOn(tapes[ThreadTape(th)], threads[th].numbers,
                              prog[threads[th].at]))
    /\ UNCHANGED <<multi, debug, call, tapePtr, numbers, free, prog, log, seeds, pre,
                   done, lastOp, hist>>

\* out.propagateToStart() of thread th
ThreadSweep(th) ==
    /\ threads[th].pc = "sweep"
    /\ LET me == threads[th]
           id == ThreadTape(th)
           r == PropagateToStart(tapes[id], me.numbers[me.out].node)
       IN  /\ tapes' = [tapes EXCEPT ![id] = r.tape]
           /\ threads' = [threads EXCEPT ![th].pc = "done",
                                         ![th].touched = @ \cup {id},
                                         ![th].overlap = Overlap(th)]
    /\ UNCHANGED <<multi, debug, call, tapePtr, numbers, free, prog, log, seeds, pre,
                   done, lastOp, hist>>

InitThreads ==
    /\ multi \in BOOLEAN
    /\ debug = FALSE
    /\ free = FALSE /\ prog \in ThreadProgs
    /\ InitCommon

NextThreads ==
    \/ \E th \in Threads : SetTape(th)
    \/ \E th \in Threads : ThreadRecord(th)
    \/ \E th \in Threads : ThreadSweep(th)

SpecThreads == InitThreads /\ [][NextThreads]_vars

\* ---------------------------------------------------------------------
\* One thread that constructs the Numbers a and b, in a debug build
\* rewinds the tape under them, sets the adjoint of one of them, and then
\* calls one operation of the catalogue on them; call describes the
\* operation called last.

OpVars == {"a", "b"}
OpLeafVals == {0 - 1, 0, 3}
OpDoubles == {0 - 1, 3}

\* the call of op: its kind (leaf: records a node of no arguments;
\* operator and compound: an arithmetic operator or function that
\* records; pure: the others), the Numbers among its operands and those
\* of them it calls node() on, its double operand, and the tape and the
\* Numbers it is called with
Call(op, kind, form, operands, checked, d) ==
    [op |-> op, kind |-> kind, form |-> form, operands |-> operands,
     checked |-> checked, d |-> d, before |-> MainTape, nums |-> numbers,
     outcome |-> "pending", result |-> Null]

\* the call c returns r, and the caller binds target to the Number returned
Returned(c, target, r, next) ==
    /\ tapes' = [tapes EXCEPT ![Main] = r.tape]
    /\ numbers' = IF target = "none" THEN numbers
                  ELSE (target :> r.num) @@ numbers
    /\ call' = [c EXCEPT !.outcome = "returned", !.result = r.num]
    /\ lastOp' = next

\* the call c of an operation on Numbers the program has constructed: in
\* a debug build node() throws when the node of an operand is not found;
\* a release build is only run on operands that are on the tape
Invoke(c, target, r) ==
    /\ lastOp # "call"
    /\ done = <<>> /\ free
    /\ \A i \in 1 .. Len(c.operands) : c.operands[i] \in DOMAIN numbers
    /\ IF debug /\ \E i \in 1 .. Len(c.checked) :
                       ~NodeFound(MainTape, numbers[c.checked[i]])
       THEN /\ tapes' = [tapes EXCEPT ![Main] =
                            AfterThrow(MainTape, multi, Len(c.checked))]
            /\ numbers' = numbers
            /\ call' = [c EXCEPT !.outcome = "threw"]
            /\ lastOp' = "call"
       ELSE /\ \A i \in 1 .. Len(c.checked) :
                   NodeFound(MainTape, numbers[c.checked[i]])
            /\ Returned(c, target, r, "call")
    /\ UNCHANGED <<multi, debug, tapePtr, threads, free, prog, log, seeds,
                   pre, done, hist>>

\* Number v(x), and v = Number(x) once the tape was rewound under v
OpsConstruct(v, x) ==
    /\ lastOp # "call"
    /\ done = <<>> /\ seeds = <<>> /\ free
    /\ v = "b" => "a" \in DOMAIN numbers
    /\ v \in DOMAIN numbers => ~NodeFound(MainTape, numbers[v])
    /\ Returned(Call("Number", "leaf", "D", <<>>, <<>>, x), v,
                OperatorLeaf(MainTape, multi, x), "setup")
    /\ UNCHANGED <<multi, debug, tapePtr, threads, free, prog, log, seeds,
                   pre, done, hist>>

\* rewind() of a debug build, which clears the tape
OpsRewind(e) ==
    /\ debug
    /\ lastOp # "call"
    /\ TapeSize(MainTape) > 0
    /\ Rewind(e)

\* the Numbers among the operands l and r of a call of the form, and the
\* operands: the Numbers bound to l and r, or the double d
NumbersOf(form, l, r) ==
    CASE form = "NN" -> <<l, r>> [] form = "ND" -> <<l>>
      [] form = "DN" -> <<r>>
Lhs(form, l, d) == IF form = "DN" THEN d ELSE numbers[l]
Rhs(form, r, d) == IF form = "ND" THEN d ELSE numbers[r]

\* Number r = l op r, l op d, d op r
OpsArith(op, form, l, r, d) ==
    /\ \A i \in 1 .. Len(NumbersOf(form, l, r)) :
           NumbersOf(form, l, r)[i] \in DOMAIN numbers
    /\ op = "div" => DivExact(form, Lhs(form, l, d), Rhs(form, r, d))
    /\ Invoke(Call(op, "operator", form, NumbersOf(form, l, r),
                   NumbersOf(form, l, r), d),
              "r",
              OperatorOn(MainTape, multi, op, form, Lhs(form, l, d),
                         Rhs(form, r, d)))

\* l op= r, l op= d
OpsCompound(op, form, l, r, d) ==
    /\ \A i \in 1 .. Len(NumbersOf(form, l, r)) :
           NumbersOf(form, l, r)[i] \in DOMAIN numbers
    /\ op = "div" => DivExact(form, Lhs(form, l, d), Rhs(form, r, d))
    /\ Invoke(Call(op, "compound", form, NumbersOf(form, l, r),
                   NumbersOf(form, l, r), d),
              l,
              CompoundAssign(MainTape, multi, op, form, Lhs(form, l, d),
                             Rhs(form, r, d)))

\* l cmp r, l cmp d, d cmp r
OpsCompare(cmp, form, l, r, d) ==
    /\ \A i \in 1 .. Len(NumbersOf(form, l, r)) :
           NumbersOf(form, l, r)[i] \in DOMAIN numbers
    /\ Invoke(Call(cmp, "pure", form, NumbersOf(form, l, r), <<>>, d),
              "none",
              OperatorCompare(MainTape, cmp, form, Lhs(form, l, d),
                              Rhs(form, r, d)))

\* Number r = -x, Number r = fabs(x), Number r = +x, x.value() and
\* x.putOnTape()
OpsUnary(f, x) ==
    /\ x \in DOMAIN numbers
    /\ Invoke(Call(f,
                   CASE f \in {"neg", "fabs"} -> "operator"
                     [] f = "putOnTape" -> "leaf"
                     [] OTHER -> "pure",
                   "N", <<x>>,
                   IF f \in {"neg", "fabs"} THEN <<x>> ELSE <<>>, Null),
              CASE f = "value" -> "none" [] f = "putOnTape" -> x
                [] OTHER -> "r",
              CASE f = "neg" -> OperatorNeg(MainTape, multi, numbers[x])
                [] f = "fabs" -> OperatorFabs(MainTape, multi, numbers[x])
                [] f = "plus" -> UnaryPlus(MainTape, multi, numbers[x])
                [] f = "value" -> Value(MainTape, multi, numbers[x])
                [] f = "putOnTape" -> PutOnTape(MainTape, multi, numbers[x]))

\* v = d
OpsAssignDouble(v, d) ==
    /\ v \in DOMAIN numbers
    /\ Invoke(Call("assign", "leaf", "D", <<v>>, <<>>, d), v,
              AssignDouble(MainTape, multi, numbers[v], d))

\* Number r; the members of r are not initialised
OpsDefault(v, n) ==
    Invoke(Call("default", "pure", "none", <<>>, <<>>, Null), "r",
           [tape |-> MainTape,
            num |-> [value |-> v, node |-> n, era |-> MainTape.era]])

InitOps ==
    /\ multi \in BOOLEAN
    /\ debug \in BOOLEAN
    /\ free = TRUE /\ prog = <<>>
    /\ InitCommon

NextOps ==
    \/ \E v \in OpVars, x \in OpLeafVals : OpsConstruct(v, x)
    \/ \E e \in Eras : OpsRewind(e)
    \/ \E op \in BinOps \cup MaxMinOps \cup {"div"}, l \in OpVars,
          r \in OpVars : OpsArith(op, "NN", l, r, Null)
    \/ \E op \in BinOps \cup MaxMinOps \cup {"div"}, form \in {"ND", "DN"},
          x \in OpVars, d \in OpDoubles : OpsArith(op, form, x, x, d)
    \/ \E op \in BinOps \cup {"div"}, l \in OpVars, r \in OpVars :
          OpsCompound(op, "NN", l, r, Null)
    \/ \E op \in BinOps \cup {"div"}, l \in OpVars, d \in OpDoubles :
          OpsCompound(op, "ND", l, l, d)
    \/ \E cmp \in {"eq", "ne", "lt", "gt", "le", "ge"}, l \in OpVars,
          r \in OpVars : OpsCompare(cmp, "NN", l, r, Null)
    \/ \E cmp \in {"eq", "ne", "lt", "gt", "le", "ge"},
          form \in {"ND", "DN"}, x \in OpVars, d \in OpDoubles :
          OpsCompare(cmp, form, x, x, d)
    \/ \E f \in {"neg", "fabs", "plus", "value", "putOnTape"},
          x \in OpVars : OpsUnary(f, x)
    \/ \E v \in OpVars, d \in OpDoubles : OpsAssignDouble(v, d)
    \/ \E v \in OpDoubles, n \in {Null, 0} : OpsDefault(v, n)
    \/ /\ lastOp # "call" /\ ~multi /\ "b" \in DOMAIN numbers
       /\ CallSetAdjoint("a", 2)
    \/ /\ lastOp # "call" /\ "b" \in DOMAIN numbers
       /\ CallSetAdjointMulti("a", 0)

SpecOps == InitOps /\ [][NextOps]_vars

\* ---------------------------------------------------------------------
\* One thread that records nodes through the constructors of Number,
\* assigns adjoints of a multi tape, marks and rewinds in a release
\* build, and records again into the storage it rewound; call holds the
\* arity of the node recordNode was called for last and the tape before.

\* Tape::recordNode<N>() as called by the constructor for the step
CallRecordNode(step) ==
    /\ step.act # "mark"
    /\ done = <<>> /\ free
    /\ TapeSize(MainTape) < MaxNodes
    /\ Operands(step) \subseteq LiveNumbers \cap {hist.last}
    /\ Recorded(step, Apply(step))
    /\ call' = [op |-> "recordNode",
                N |-> CASE step.act = "leaf" -> 0 [] step.act = "un" -> 1
                        [] step.act = "bin" -> 2,
                before |-> MainTape]
    /\ log' = Append(log, step)
    /\ lastOp' = "recordNode"
    /\ UNCHANGED <<multi, debug, tapePtr, threads, free, prog, seeds, pre, done>>

\* x.adjoint(j) = a on x, the Number recorded last, on a tape whose
\* adjoint storage is all zero
AssignAdjointMulti(h, j, a) ==
    /\ multi
    /\ done = <<>>
    /\ h \in LiveNumbers \cap {hist.last}
    /\ \A c \in DOMAIN MainTape.adjMem : MainTape.adjMem[c] = 0
    /\ tapes' = [tapes EXCEPT ![Main] =
                    SetAdjointMulti(MainTape, numbers[h].node, j, a)]
    /\ lastOp' = "seed"
    /\ UNCHANGED <<multi, debug, call, tapePtr, threads, numbers, free, prog,
                   log, seeds, pre, done, hist>>

InitRecord ==
    /\ multi \in BOOLEAN
    /\ debug = FALSE
    /\ free = TRUE /\ prog = <<>>
    /\ InitCommon

NextRecord ==
    \/ \E step \in ArenaSteps : CallRecordNode(step)
    \/ \E h \in NodeIdx : AssignAdjointMulti(h, numAdj - 1, 2)
    \/ Mark
    \/ \E e \in Eras : Rewind(e)
    \/ RewindToMark

SpecRecord == InitRecord /\ [][NextRecord]_vars

\* the tape a single thread leaves that records steps and sweeps from the
\* last Number to the start
RECURSIVE RunOn(_, _, _, _)
RunOn(t, nums, steps, k) ==
    IF k > Len(steps) THEN [tape |-> t, numbers |-> nums]
    ELSE LET r == ApplyOn(t, nums, steps[k])
         IN  RunOn(r.tape, ((k - 1) :> r.num) @@ nums, steps, k + 1)
SingleRun(steps) ==
    LET rec == RunOn(TapeInit, <<>>, steps, 1)
    IN  PropagateToStart(rec.tape, rec.numbers[Len(steps) - 1].node).tape

(***************************************************************************)
(* The expression a log of recording steps denotes: the value of node i    *)
(* and its partial derivative with respect to node x, by the rules of      *)
(* differentiation (the sum over the paths from i to x of the products of  *)
(* the local derivatives).                                                 *)
(***************************************************************************)
RECURSIVE ExprVal(_, _)
ExprVal(lg, i) ==
    LET s == lg[i + 1]
    IN  CASE s.op = "leaf" -> s.c
          [] s.op = "add" -> ExprVal(lg, s.a) + ExprVal(lg, s.b)
          [] s.op = "sub" -> ExprVal(lg, s.a) - ExprVal(lg, s.b)
          [] s.op = "mul" -> ExprVal(lg, s.a) * ExprVal(lg, s.b)
          [] s.op = "addD" -> ExprVal(lg, s.a) + s.c
          [] s.op = "subD" -> ExprVal(lg, s.a) - s.c
          [] s.op = "dSub" -> s.c - ExprVal(lg, s.a)
          [] s.op = "mulD" -> s.c * ExprVal(lg, s.a)

RECURSIVE ExprD(_, _, _)
ExprD(lg, i, x) ==
    LET s == lg[i + 1]
    IN  IF i = x THEN 1
        ELSE CASE s.op = "leaf" -> 0
          [] s.op = "add" -> ExprD(lg, s.a, x) + ExprD(lg, s.b, x)
          [] s.op = "sub" -> ExprD(lg, s.a, x) - ExprD(lg, s.b, x)
          [] s.op = "mul" -> ExprD(lg, s.a, x) * ExprVal(lg, s.b)
                             + ExprVal(lg, s.a) * ExprD(lg, s.b, x)
          [] s.op = "addD" -> ExprD(lg, s.a, x)
          [] s.op = "subD" -> ExprD(lg, s.a, x)
          [] s.op = "dSub" -> 0 - ExprD(lg, s.a, x)
          [] s.op = "mulD" -> s.c * ExprD(lg, s.a, x)

Leaves == {x \in 0 .. (Len(log) - 1) : log[x + 1].act = "leaf"}
Adjoint(x) == MainTape.nodeMem[x].mAdjoint
AdjointMulti(x, j) == MainTape.adjMem[MainTape.nodeMem[x].pAdjoints + j]

(***************************************************************************)
(* C1.  Single-output mode, an expression recorded on a fresh tape with    *)
(* +, - and *: after out.propagateToStart() the adjoint of every leaf is   *)
(* the partial derivative of out with respect to it; x = 3,                *)
(* y = x * x + 2 * x + 1 gives y.value() = 16 and x.adjoint() = 8.         *)
(***************************************************************************)
C1Case ==
    /\ ~multi /\ seeds = <<>>
    /\ Len(done) = 1 /\ done[1].entry = "propagateToStart"

Thm_C1_GradientToStart ==
    C1Case =>
        /\ \A x \in Leaves : Adjoint(x) = ExprD(log, done[1].node, x)
        /\ numbers[done[1].node].value = ExprVal(log, done[1].node)
        /\ (log = PolyScript(3) /\ done[1].node = 4) =>
               (numbers[4].value = 16 /\ Adjoint(0) = 8)

Wit_C1_Poly ==
    /\ C1Case /\ log = PolyScript(3) /\ done[1].node = 4
    /\ numbers[4].value = 16 /\ Adjoint(0) = 8

(***************************************************************************)
(* C2.  A sweep from position from down to position to (from >= to)        *)
(* propagates exactly the nodes at to .. from, each once, in strictly      *)
(* decreasing order, both ends included.                                   *)
(***************************************************************************)
Descending(vis, from, to) ==
    /\ Len(vis) = from - to + 1
    /\ \A k \in 1 .. Len(vis) : vis[k][1] = from - (k - 1)

Thm_C2_SweepRange ==
    \A i \in 1 .. Len(done) :
        Descending(done[i].visited, done[i].from, done[i].to)

Wit_C2_SweepRange ==
    \E i \in 1 .. Len(done) :
        /\ done[i].entry = "propagateAdjoints"
        /\ done[i].from >= done[i].to + 2
        /\ done[i].to >= 1
        /\ Len(done[i].visited) = 3

(***************************************************************************)
(* C4.  post.propagateToMark() followed by propagateMarkToStart() leaves   *)
(* every adjoint as one post.propagateToStart() on the same tape does,     *)
(* every node from post down to the start propagated exactly once.         *)
(***************************************************************************)
C4Case ==
    /\ seeds = <<>> /\ Len(done) = 2
    /\ done[1].entry = "propagateToMark"
    /\ done[2].entry = "propagateMarkToStart"

Thm_C4_TwoPhase ==
    C4Case =>
        LET one == PropagateToStart(pre, done[1].node)
        IN  /\ MainTape = one.tape
            /\ done[1].visited \o done[2].visited = one.visited
            /\ Descending(one.visited, done[1].node, 0)

Wit_C4_TwoPhase ==
    /\ C4Case /\ ~multi
    /\ log = <<Leaf(3), Leaf(5), Bin("mul", 0, 1), Bin("mul", 2, 0), Bin("sub", 3, 1)>>
    /\ done[1].node = 4 /\ TapeMarkIt(MainTape) = 3
    /\ Adjoint(0) = 30 /\ Adjoint(1) = 8

(***************************************************************************)
(* C5.  Multi-output mode: with adjoint(j) = 1 seeded on output j for      *)
(* every j, propagateAdjointsMulti from the last node down to begin()      *)
(* leaves in adjoint(j) of every leaf the partial derivative of output j;  *)
(* x = 5, out0 = x * x, out1 = x + x gives x.adjoint(0) = 10 and           *)
(* x.adjoint(1) = 2.                                                       *)
(***************************************************************************)
C5Case ==
    /\ multi /\ Len(seeds) = numAdj
    /\ Len(done) = 1 /\ done[1].entry = "propagateAdjointsMulti"

Thm_C5_MultiGradient ==
    C5Case =>
        /\ \A x \in Leaves : \A j \in 0 .. (numAdj - 1) :
              AdjointMulti(x, j) =
                 LET outs == {i \in 1 .. Len(seeds) : seeds[i].j = j}
                     sum[S \in SUBSET outs] ==
                        IF S = {} THEN 0
                        ELSE LET i == CHOOSE i \in S : TRUE
                             IN  ExprD(log, seeds[i].node, x) + sum[S \ {i}]
                 IN  sum[outs]
        /\ (log = TwoScript(5) /\ seeds[1].node = 1 /\ seeds[2].node = 2) =>
               (AdjointMulti(0, 0) = 10 /\ AdjointMulti(0, 1) = 2)

Wit_C5_TwoOutputs ==
    /\ C5Case /\ log = TwoScript(5)
    /\ seeds[1].node = 1 /\ seeds[2].node = 2
    /\ AdjointMulti(0, 0) = 10 /\ AdjointMulti(0, 1) = 2

(***************************************************************************)
(* C6.  As claimed: every sweep propagates with the routine the multi      *)
(* flag of the tape selects, whatever the entry point.                     *)
(***************************************************************************)
Orig_C6_RoutineByFlag ==
    \A i \in 1 .. Len(done) : \A k \in 1 .. Len(done[i].visited) :
        done[i].visited[k][2] = IF multi THEN "all" ELSE "one"

(***************************************************************************)
(* C6, amended.  The routine is selected by the entry point:               *)
(* propagateAdjoints(from, to) and the overloads built on it               *)
(* (propagateAdjoints(to), propagateToStart, propagateToMark,              *)
(* propagateMarkToStart) invoke propagateOne on every node, also when      *)
(* multi is set, and the overloads that seed write 1 to the scalar         *)
(* adjoint and leave the adjoint vectors of the seeded node alone; only    *)
(* propagateAdjointsMulti invokes propagateAll.                            *)
(***************************************************************************)
Thm_C6_RoutineByEntry ==
    /\ \A i \in 1 .. Len(done) : \A k \in 1 .. Len(done[i].visited) :
          done[i].visited[k][2] =
             IF done[i].entry = "propagateAdjointsMulti" THEN "all" ELSE "one"
    /\ (done # <<>> /\ done[1].node # Null) =>
          /\ Adjoint(done[1].node) = 1
          /\ multi => \A j \in 0 .. (numAdj - 1) :
                         AdjointMulti(done[1].node, j) = 0

Wit_C6_ScalarSweepOnMultiTape ==
    /\ multi /\ done # <<>>
    /\ done[1].entry = "propagateToStart"
    /\ Len(done[1].visited) >= 2
    /\ done[1].visited[1][2] = "one"
    /\ Adjoint(done[1].node) = 1

(***************************************************************************)
(* C3.  As claimed: in every state reachable by leaf constructions,        *)
(* operations on Numbers, mark, rewind and rewindToMark, every node on the *)
(* tape with arity n > 0 has n non-null argument adjoint pointers, each to *)
(* the adjoint storage of a node strictly earlier on the tape.             *)
(***************************************************************************)
ArgsEarlier(t, m) ==
    \A p \in 0 .. (TapeSize(t) - 1) :
        LET nd == t.nodeMem[p]
        IN  \A i \in 0 .. (nd.n - 1) :
               LET ptr == t.argMem[nd.pAdjPtrs + i]
               IN  /\ ptr # NullPtr
                   /\ IF m
                      THEN /\ ptr.k = "adj"
                           /\ \E q \in 0 .. (p - 1) : t.nodeMem[q].pAdjoints = ptr.a
                      ELSE ptr.k = "node" /\ ptr.a >= 0 /\ ptr.a < p

Orig_C3_ArgsEarlier == ArgsEarlier(MainTape, multi)

(***************************************************************************)
(* C3, amended.  The argument adjoint pointers of every node on the tape   *)
(* are non-null and refer to strictly earlier nodes of the tape, provided  *)
(* that no operation since the tape was last empty took as operand a       *)
(* Number whose node was not on the tape (a Number recorded before a       *)
(* rewind or beyond a mark rewound to).                                    *)
(***************************************************************************)
Thm_C3_ArgsEarlierOfLiveOperands == ~hist.stale => ArgsEarlier(MainTape, multi)

Wit_C3_RecordedAfterRewind ==
    /\ ~hist.stale /\ ~debug /\ hist.reset = "rewind"
    /\ \E p \in 1 .. (TapeSize(MainTape) - 1) : MainTape.nodeMem[p].n = 2

(***************************************************************************)
(* C7.  After mark(), recordings and rewindToMark(), the size of the tape  *)
(* and the cursors of the four lists are those at the mark, and the        *)
(* recordings that follow return the node, derivative, argument pointer    *)
(* and adjoint addresses they would have returned right after the mark.    *)
(***************************************************************************)
LiveAddrs(t, from) ==
    [k \in 1 .. (TapeSize(t) - from) |->
        LET nd == t.nodeMem[from + k - 1]
        IN  [node |-> from + k - 1, ders |-> nd.pDerivatives,
             args |-> nd.pAdjPtrs, adjs |-> nd.pAdjoints]]
LiveArities(t, from) ==
    [k \in 1 .. (TapeSize(t) - from) |-> t.nodeMem[from + k - 1].n]

Thm_C7_RewindToMark ==
    /\ lastOp = "rewindToMark" =>
          /\ TapeSize(MainTape) = hist.atMark.size
          /\ Cursors(MainTape) = hist.atMark.cursors
          /\ \A s \in AritySeqs :
                RecordAddrs(MainTape, multi, s) = hist.atMark.next[s]
    /\ (hist.reset = "rewindToMark" /\ hist.clean
          /\ TapeSize(MainTape) > hist.atMark.size
          /\ LiveArities(MainTape, hist.atMark.size) \in AritySeqs) =>
          LiveAddrs(MainTape, hist.atMark.size)
             = hist.atMark.next[LiveArities(MainTape, hist.atMark.size)]

Wit_C7_RecordedAgain ==
    /\ hist.reset = "rewindToMark" /\ hist.clean
    /\ hist.atMark.size >= 1
    /\ Len(hist.prev) > hist.atMark.size
    /\ TapeSize(MainTape) > hist.atMark.size
    /\ MainTape.nodeMem[hist.atMark.size].n = 2

(***************************************************************************)
(* C8.  As claimed: after rewind() the i-th node recorded has the address  *)
(* of the i-th node recorded before it, and rewind() releases no block.    *)
(***************************************************************************)
RewindReuse ==
    hist.reset = "rewind" =>
        /\ hist.released = 0
        /\ \A i \in 1 .. Len(hist.addrs) :
              i <= Len(hist.prev) => hist.addrs[i] = hist.prev[i]

Orig_C8_RewindReuse == RewindReuse

(***************************************************************************)
(* C8, amended.  In a release build (no _DEBUG), after rewind() the i-th   *)
(* node recorded has the address of the i-th node recorded before it, and  *)
(* rewind() releases no block; a debug build's rewind() is clear().        *)
(***************************************************************************)
Thm_C8_ReleaseRewindReuse == ~debug => RewindReuse

Wit_C8_SameAddresses ==
    /\ ~debug /\ hist.reset = "rewind"
    /\ Len(hist.prev) >= 2 /\ hist.addrs = hist.prev
    /\ MainTape.myNodes.nblocks >= 2

(***************************************************************************)
(* C9.  As claimed: clear, rewind, mark and rewindToMark are each applied  *)
(* to all four lists in every call.                                        *)
(***************************************************************************)
FourLists == {"myAdjointsMulti", "myDers", "myArgPtrs", "myNodes"}
\* the lists mark, rewind and rewindToMark act on under Tape::multi = m
Forwarded(m) == IF m THEN FourLists ELSE FourLists \ {"myAdjointsMulti"}

AppliedTo(ls) ==
    /\ lastOp = "mark" =>
          \A l \in ls : MainTape[l].mark = Cursor(MainTape[l])
    /\ lastOp = "rewind" =>
          \A l \in ls : Cursor(MainTape[l]) = <<0, 0>>
    /\ lastOp = "rewindToMark" =>
          \A l \in ls : Cursor(MainTape[l]) = MainTape[l].mark
    /\ lastOp = "clear" =>
          \A l \in FourLists : MainTape[l] = BLInit

\* the tape that recordings of the arities ar, in turn, leave
RECURSIVE LayoutOf(_, _, _)
LayoutOf(u, m, ar) ==
    IF ar = <<>> THEN u
    ELSE LayoutOf(RecordNode(u, m, Head(ar)).tape, m, Tail(ar))

\* cursors and marks of the lists are those of a recording of the live
\* nodes, and the storage of every live node lies before the cursors
SameLiveNodes ==
    LET ar == LiveArities(MainTape, 0)
        u == LayoutOf(TapeInit, multi, ar)
    IN  /\ Cursors(u) = Cursors(MainTape)
        /\ LiveAddrs(u, 0) = LiveAddrs(MainTape, 0)
        /\ hist.clean =>
              \A l \in Forwarded(multi) :
                 MainTape[l].mark =
                    Cursors(LayoutOf(TapeInit, multi,
                                     SubSeq(ar, 1, TapeMarkIt(MainTape))))[l]
        /\ \A p \in 0 .. (TapeSize(MainTape) - 1) :
              LET nd == MainTape.nodeMem[p]
              IN  /\ nd.n > 0 =>
                        /\ nd.pDerivatives + nd.n <= BLEnd(MainTape.myDers, DATASIZE)
                        /\ nd.pAdjPtrs + nd.n <= BLEnd(MainTape.myArgPtrs, DATASIZE)
                  /\ multi => nd.pAdjoints + numAdj
                                 <= BLEnd(MainTape.myAdjointsMulti, ADJSIZE)
                  /\ ~hist.stale =>
                        \A i \in 0 .. (nd.n - 1) :
                           LET ptr == MainTape.argMem[nd.pAdjPtrs + i]
                           IN  IF multi
                               THEN ptr.a + numAdj
                                       <= BLEnd(MainTape.myAdjointsMulti, ADJSIZE)
                               ELSE ptr.a < TapeSize(MainTape)

Thm_C10_ThreadIsolation ==
    \A th \in Threads :
        /\ threads[th].touched \subseteq {OwnTape(th)}
        /\ threads[th].pc = "done" =>
              LET t == tapes[OwnTape(th)]
                  one == SingleRun(prog)
              IN  /\ t = one
                  /\ ~multi =>
                        \A x \in 0 .. (Len(prog) - 1) :
                           prog[x + 1].act = "leaf" =>
                              t.nodeMem[x].mAdjoint = ExprD(prog, Len(prog) - 1, x)

Wit_C10_BothDone ==
    /\ \A th \in Threads : threads[th].pc = "done" /\ threads[th].overlap
    /\ ~multi /\ prog = PolyScript(3)
    /\ \A th \in Threads : tapes[OwnTape(th)].nodeMem[0].mAdjoint = 8

(***************************************************************************)
(* C11.  Linearity: on a tape whose adjoints are all zero, the adjoint of  *)
(* the output set to alpha and the static propagateAdjoints run from the   *)
(* output to begin(), every leaf adjoint (the scalar, and on a multi tape  *)
(* every entry of the vector) is alpha times the adjoint the same sweep    *)
(* leaves on the same tape with the output seeded with 1.                  *)
(***************************************************************************)
C11Case ==
    /\ Len(seeds) = 1 /\ seeds[1].j = Null
    /\ Len(done) = 1 /\ done[1].entry = "propagateAdjoints"
    /\ done[1].from = seeds[1].node /\ done[1].to = TapeBegin(MainTape)

\* the tape the sweep of done[1] leaves when the output is seeded with a
SeededWith(a) ==
    PropagateAdjoints(SetAdjoint(pre, done[1].from, a),
                      done[1].from, done[1].to).tape

AllAdjointsZero(t) ==
    /\ \A p \in 0 .. (TapeSize(t) - 1) : t.nodeMem[p].mAdjoint = 0
    /\ \A c \in DOMAIN t.adjMem : t.adjMem[c] = 0

Thm_C11_Linearity ==
    C11Case =>
        \A x \in Leaves :
           /\ Adjoint(x) = seeds[1].a * SeededWith(1).nodeMem[x].mAdjoint
           /\ multi => \A j \in 0 .. (numAdj - 1) :
                 AdjointMulti(x, j) =
                    seeds[1].a * SeededWith(1).adjMem[MainTape.nodeMem[x].pAdjoints + j]

Wit_C11_SeededWithAlpha ==
    /\ C11Case /\ ~multi
    /\ AllAdjointsZero(SetAdjoint(pre, done[1].from, 0))
    /\ log = PolyScript(3) /\ done[1].from = 4
    /\ seeds[1].a = 0 - 3
    /\ SeededWith(1).nodeMem[0].mAdjoint = 8 /\ Adjoint(0) = 0 - 24

(***************************************************************************)
(* C20.  Node::propagateOne() on a node of arity n and scalar adjoint A:   *)
(* when n = 0 or A = 0 nothing changes; otherwise derivatives[i] * A is    *)
(* added, for each i < n, to the adjoint arg_adjoints[i] points to (twice  *)
(* when both arguments are the same node) and nothing else changes; the    *)
(* node's own adjoint keeps its value in both cases.                       *)
(***************************************************************************)
\* what propagateOne on node p of tape t adds to the adjoint at ptr
AddedTo(t, p, ptr) ==
    LET nd == t.nodeMem[p]
        term(i) == IF i < nd.n /\ t.argMem[nd.pAdjPtrs + i] = ptr
                   THEN t.derMem[nd.pDerivatives + i] * nd.mAdjoint ELSE 0
    IN  term(0) + term(1)

Thm_C20_PropagateOne ==
    lastOp = "propagateOne" =>
        LET b == call.before
            p == call.node
            nd == b.nodeMem[p]
        IN  /\ (nd.n = 0 \/ nd.mAdjoint = 0) => MainTape = b
            /\ MainTape.nodeMem[p].mAdjoint = nd.mAdjoint
            /\ \A q \in DOMAIN b.nodeMem :
                  MainTape.nodeMem[q] =
                     [b.nodeMem[q] EXCEPT
                        !.mAdjoint = @ + AddedTo(b, p, [k |-> "node", a |-> q])]
            /\ \A c \in DOMAIN b.adjMem :
                  MainTape.adjMem[c] =
                     b.adjMem[c] + AddedTo(b, p, [k |-> "adj", a |-> c])
            /\ [MainTape EXCEPT !.nodeMem = b.nodeMem, !.adjMem = b.adjMem] = b

Wit_C20_SameArgumentTwice ==
    /\ lastOp = "propagateOne" /\ ~multi /\ Len(done) = 2
    /\ call.before.nodeMem[call.node].n = 2
    /\ call.before.nodeMem[call.node].mAdjoint = 2
    /\ call.before.argMem[call.before.nodeMem[call.node].pAdjPtrs]
          = call.before.argMem[call.before.nodeMem[call.node].pAdjPtrs + 1]
    /\ call.before.nodeMem[0].mAdjoint = 12
    /\ Adjoint(0) = 24

(***************************************************************************)
(* C18.  After Tape::resetAdjoints() every adjoint of every node on the    *)
(* tape is zero: in multi-output mode all numAdj entries of the node's     *)
(* adjoint vector, in single-output mode its scalar adjoint; the number of *)
(* nodes, the derivatives and the argument pointers are as before.         *)
(***************************************************************************)
LiveAdjointsZero(t, m) ==
    \A p \in 0 .. (TapeSize(t) - 1) :
        IF m
        THEN \A j \in 0 .. (numAdj - 1) : t.adjMem[t.nodeMem[p].pAdjoints + j] = 0
        ELSE t.nodeMem[p].mAdjoint = 0

\* the nodes of t that have a nonzero adjoint, under the flag m
WithAdjoint(t, m) ==
    {p \in 0 .. (TapeSize(t) - 1) :
        IF m
        THEN \E j \in 0 .. (numAdj - 1) : t.adjMem[t.nodeMem[p].pAdjoints + j] # 0
        ELSE t.nodeMem[p].mAdjoint # 0}

Thm_C18_ResetAdjoints ==
    lastOp = "resetAdjoints" =>
        /\ LiveAdjointsZero(MainTape, multi)
        /\ TapeSize(MainTape) = TapeSize(call.before)
        /\ MainTape.derMem = call.before.derMem
        /\ MainTape.argMem = call.before.argMem
        /\ Cursors(MainTape) = Cursors(call.before)
        /\ \A p \in DOMAIN MainTape.nodeMem :
              [MainTape.nodeMem[p] EXCEPT !.mAdjoint = 0]
                 = [call.before.nodeMem[p] EXCEPT !.mAdjoint = 0]

Wit_C18_AdjointsWereSet ==
    /\ lastOp = "resetAdjoints" /\ multi
    /\ TapeSize(MainTape) >= 3
    /\ Cardinality(WithAdjoint(call.before, multi)) >= 2

\* ---------------------------------------------------------------------
\* C12: every recording operation that returns appends exactly one node
\* to the tape of the current thread and to no other; the arity of the
\* node is the number of Number operands (0 for Number(double),
\* operator=(double) and putOnTape(), 1 for the operators on a Number and
\* a double and the unary functions, unary minus included, 2 for the
\* operators on two Numbers), and the Number returned refers to that node.
JustCalled == lastOp \in {"setup", "call"}
RecordingCall ==
    /\ JustCalled
    /\ call.kind \in {"leaf", "operator", "compound"}
    /\ call.outcome = "returned"
NumberOperands ==
    IF call.kind = "leaf" THEN 0 ELSE IF call.form = "NN" THEN 2 ELSE 1
NewNode == TapeSize(call.before)
Thm_C12_OneNodeOfArity ==
    RecordingCall =>
        /\ TapeSize(MainTape) = NewNode + 1
        /\ MainTape.nodeMem[NewNode].n = NumberOperands
        /\ call.result.node = NewNode
        /\ call.result.era = MainTape.era
        /\ NodeFound(MainTape, call.result)
        /\ \A i \in TapeIds \ {Main} : tapes[i] = TapeInit

\* unary minus of b, the second Number on the tape, returned a Number on
\* a new third node of one argument
Wit_C12_UnaryMinusRecorded ==
    /\ RecordingCall
    /\ call.op = "neg" /\ call.operands = <<"b">>
    /\ NewNode = 2
    /\ MainTape.nodeMem[2].n = 1
    /\ numbers["r"].node = 2

\* ---------------------------------------------------------------------
\* C13: a compound assignment a op= b (op one of +, -, *, /; b a Number
\* or a double) that returns appends a new node and binds a to it; the
\* node a referred to before and every other node recorded before keep
\* their arity, derivatives, argument pointers and adjoints, and the
\* first argument pointer of the new node refers to the adjoint of the
\* node a referred to before.
CompoundCall ==
    JustCalled /\ call.kind = "compound" /\ call.outcome = "returned"
OldNode == call.nums[call.operands[1]].node
\* node q and the slots it owns are the same on the tapes t and u
SameNode(t, u, q) ==
    /\ u.nodeMem[q] = t.nodeMem[q]
    /\ \A i \in 0 .. (t.nodeMem[q].n - 1) :
           /\ u.derMem[t.nodeMem[q].pDerivatives + i]
                  = t.derMem[t.nodeMem[q].pDerivatives + i]
           /\ u.argMem[t.nodeMem[q].pAdjPtrs + i]
                  = t.argMem[t.nodeMem[q].pAdjPtrs + i]
    /\ multi => \A j \in 0 .. (numAdj - 1) :
                    u.adjMem[t.nodeMem[q].pAdjoints + j]
                        = t.adjMem[t.nodeMem[q].pAdjoints + j]
Thm_C13_CompoundRebinds ==
    CompoundCall =>
        /\ TapeSize(MainTape) = NewNode + 1
        /\ numbers[call.operands[1]].node = NewNode
        /\ OldNode # NewNode
        /\ \A q \in 0 .. (NewNode - 1) : SameNode(call.before, MainTape, q)
        /\ MainTape.nodeMem[NewNode].n >= 1
        /\ MainTape.argMem[MainTape.nodeMem[NewNode].pAdjPtrs]
               = IF multi
                 THEN [k |-> "adj", a |-> call.before.nodeMem[OldNode].pAdjoints]
                 ELSE [k |-> "node", a |-> OldNode]

\* a *= b on a multi tape, with a on node 0 and b on node 1: a is bound
\* to the new node 2, whose arguments are the adjoints of nodes 0 and 1
Wit_C13_TimesAssign ==
    /\ CompoundCall /\ multi
    /\ call.op = "mul" /\ call.operands = <<"a", "b">>
    /\ OldNode = 0 /\ call.nums["b"].node = 1
    /\ numbers["a"].node = 2
    /\ numbers["a"].value = call.nums["a"].value * call.nums["b"].value
    /\ MainTape.nodeMem[0] = call.before.nodeMem[0]

\* ---------------------------------------------------------------------
\* C14: default construction of a Number, the six comparison operators
\* in the three operand forms, unary plus and value() leave the tapes as
\* they were: no node is appended and no node, derivative, argument
\* pointer or adjoint is modified; unary plus returns a Number that
\* refers to the node of its operand.
PureCall == JustCalled /\ call.kind = "pure"
Thm_C14_PureCalls ==
    PureCall =>
        /\ call.outcome = "returned"
        /\ MainTape = call.before
        /\ \A i \in TapeIds \ {Main} : tapes[i] = TapeInit
        /\ call.op = "plus" =>
               /\ call.result = call.nums[call.operands[1]]
               /\ numbers["r"].node = call.nums[call.operands[1]].node

\* +b with b on the second node of a tape on which an adjoint is set:
\* the Number returned refers to the second node, and the tape still
\* has two nodes
Wit_C14_UnaryPlusSameNode ==
    /\ PureCall
    /\ call.op = "plus" /\ call.operands = <<"b">>
    /\ seeds # <<>>
    /\ TapeSize(MainTape) = 2
    /\ numbers["r"].node = 1 /\ numbers["b"].node = 1

\* ---------------------------------------------------------------------
\* C15: the node recorded by +, - and * carries the value and the local
\* derivatives of the table: a + b with (1, 1), a - b with (1, -1),
\* a * b with (b, a); the variants on a Number and a double record a node
\* of one argument, the Number, whose derivative is the partial with
\* respect to the Number (Number + double and double + Number: 1;
\* Number - double: 1; double - Number: -1; Number * double and
\* double * Number: the double); unary minus yields -a with derivative -1.
OperatorCall(op, form) ==
    /\ JustCalled
    /\ call.kind \in {"operator", "compound"}
    /\ call.outcome = "returned"
    /\ call.op = op /\ call.form = form
\* the values of the Number operands, the value returned, the local
\* derivatives and the argument pointers of the node recorded
ValA == call.nums[call.operands[1]].value
ValB == call.nums[call.operands[2]].value
ResVal == call.result.value
NewDer(i) == MainTape.derMem[MainTape.nodeMem[NewNode].pDerivatives + i]
NewArg(i) == MainTape.argMem[MainTape.nodeMem[NewNode].pAdjPtrs + i]
AdjointOf(x) ==
    IF multi THEN [k |-> "adj", a |-> call.before.nodeMem[call.nums[x].node].pAdjoints]
    ELSE [k |-> "node", a |-> call.nums[x].node]
\* the node recorded has the Numbers of the call as its arguments
ArgsAreNumbers ==
    /\ MainTape.nodeMem[NewNode].n = Len(call.operands)
    /\ \A i \in 1 .. Len(call.operands) :
           NewArg(i - 1) = AdjointOf(call.operands[i])
Binary(v, l, r) ==
    ResVal = v /\ NewDer(0) = l /\ NewDer(1) = r /\ ArgsAreNumbers
Unary(v, x) == ResVal = v /\ NewDer(0) = x /\ ArgsAreNumbers
Thm_C15_PlusMinusTimes ==
    /\ OperatorCall("add", "NN") => Binary(ValA + ValB, 1, 1)
    /\ OperatorCall("sub", "NN") => Binary(ValA - ValB, 1, 0 - 1)
    /\ OperatorCall("mul", "NN") => Binary(ValA * ValB, ValB, ValA)
    /\ OperatorCall("add", "ND") => Unary(ValA + call.d, 1)
    /\ OperatorCall("add", "DN") => Unary(call.d + ValA, 1)
    /\ OperatorCall("sub", "ND") => Unary(ValA - call.d, 1)
    /\ OperatorCall("sub", "DN") => Unary(call.d - ValA, 0 - 1)
    /\ OperatorCall("mul", "ND") => Unary(ValA * call.d, call.d)
    /\ OperatorCall("mul", "DN") => Unary(call.d * ValA, call.d)
    /\ OperatorCall("neg", "N") => Unary(0 - ValA, 0 - 1)

\* a - b with a = 3 and b = -1 recorded the value 4 with derivatives
\* 1 and -1
Wit_C15_Minus ==
    /\ OperatorCall("sub", "NN")
    /\ call.operands = <<"a", "b">>
    /\ ValA = 3 /\ ValB = 0 - 1
    /\ ResVal = 4 /\ NewDer(0) = 1 /\ NewDer(1) = 0 - 1

\* ---------------------------------------------------------------------
\* C16: max(a, b) records the larger value with left derivative 1 if
\* a > b and 0 otherwise, min(a, b) the smaller value with left
\* derivative 1 if a < b and 0 otherwise; the right derivative is the
\* complement, so the two sum to 1, also when a = b; max and min of a
\* Number and a double, in either order, record a node of one argument
\* whose derivative is 1 exactly when the Number is strictly the larger
\* (the smaller) and 0 otherwise.
Larger(a, b) == IF a >= b THEN a ELSE b
Smaller(a, b) == IF a <= b THEN a ELSE b
Indicator(p) == IF p THEN 1 ELSE 0
Thm_C16_MaxMin ==
    /\ OperatorCall("max", "NN") =>
           /\ Binary(Larger(ValA, ValB), Indicator(ValA > ValB),
                     1 - Indicator(ValA > ValB))
           /\ NewDer(0) + NewDer(1) = 1
    /\ OperatorCall("min", "NN") =>
           /\ Binary(Smaller(ValA, ValB), Indicator(ValA < ValB),
                     1 - Indicator(ValA < ValB))
           /\ NewDer(0) + NewDer(1) = 1
    /\ OperatorCall("max", "ND") \/ OperatorCall("max", "DN") =>
           Unary(Larger(ValA, call.d), Indicator(ValA > call.d))
    /\ OperatorCall("min", "ND") \/ OperatorCall("min", "DN") =>
           Unary(Smaller(ValA, call.d), Indicator(ValA < call.d))

\* max(a, b) with a = b = 3: the value 3 with derivatives 0 and 1
Wit_C16_MaxOfEqual ==
    /\ OperatorCall("max", "NN")
    /\ call.operands = <<"a", "b">>
    /\ ValA = 3 /\ ValB = 3
    /\ ResVal = 3 /\ NewDer(0) = 0 /\ NewDer(1) = 1

\* ---------------------------------------------------------------------
\* C17: fabs(a) records a node of one argument with value |a|; as
\* claimed, the local derivative is +1 for every a >= 0, a = 0 included,
\* and -1 for every a < 0.
Orig_C17_FabsSignAtZero ==
    OperatorCall("fabs", "N") =>
        Unary(IF ValA >= 0 THEN ValA ELSE 0 - ValA,
              IF ValA >= 0 THEN 1 ELSE 0 - 1)

\* C17, amended: fabs(a) records a node of one argument with value |a|
\* and local derivative +1 for every a > 0 and -1 for every a <= 0,
\* a = 0 included.
Thm_C17_FabsSign ==
    OperatorCall("fabs", "N") =>
        Unary(IF ValA >= 0 THEN ValA ELSE 0 - ValA,
              IF ValA > 0 THEN 1 ELSE 0 - 1)

\* fabs(a) with a = 0 recorded the value 0 with derivative -1
Wit_C17_FabsOfZero ==
    /\ OperatorCall("fabs", "N")
    /\ ValA = 0
    /\ ResVal = 0 /\ NewDer(0) = 0 - 1
    /\ MainTape.nodeMem[NewNode].n = 1

\* ---------------------------------------------------------------------
\* C19: in a debug build, as claimed, a call of any arithmetic operator
\* or function, unary plus included, on an operand whose node is not on
\* the tape of the current thread fails in Number::node() before a node
\* is recorded, and leaves the tape and the Numbers as they were.
OnTape(t, num) == num.era = t.era /\ num.node \in 0 .. (TapeSize(t) - 1)
OffTapeOperand ==
    \E i \in 1 .. Len(call.operands) :
        ~OnTape(call.before, call.nums[call.operands[i]])
FailedCleanly ==
    /\ call.outcome = "threw"
    /\ MainTape = call.before
    /\ numbers = call.nums
    /\ \A i \in TapeIds \ {Main} : tapes[i] = TapeInit
Orig_C19_AnyArithmeticThrows ==
    (/\ debug /\ JustCalled
     /\ call.kind \in {"operator", "compound"} \/ call.op = "plus"
     /\ OffTapeOperand) => FailedCleanly

\* C19, amended: in a debug build a call of an arithmetic operator or
\* function that records a node (every one but unary plus, which copies
\* its operand and does not call Number::node()) on an operand whose node
\* is not on the tape of the current thread fails in Number::node()
\* before a node is recorded, and leaves the tape and the Numbers as
\* they were.
Thm_C19_RecordingThrows ==
    (/\ debug /\ JustCalled
     /\ call.kind \in {"operator", "compound"}
     /\ OffTapeOperand) => FailedCleanly

\* after a rewind a was constructed again; a + b with the old b, whose
\* node is past the end of the tape, threw and the tape still has the
\* one node of a
Wit_C19_StaleRhsThrew ==
    /\ debug /\ JustCalled
    /\ call.op = "add" /\ call.form = "NN"
    /\ call.operands = <<"a", "b">>
    /\ OnTape(call.before, call.nums["a"])
    /\ ~OnTape(call.before, call.nums["b"])
    /\ call.outcome = "threw"
    /\ TapeSize(MainTape) = 1
    /\ MainTape = call.before

\* ---------------------------------------------------------------------
\* C21: recordNode<N>() appends exactly one node of arity N to the list
\* of nodes; for N > 0 it reserves exactly N contiguous derivative slots
\* and N contiguous argument-pointer slots and stores their addresses in
\* the node, for N = 0 it reserves none; on a multi tape it reserves
\* numAdj contiguous adjoint slots, stores their address in the node and
\* sets them all to zero, also in storage reused after rewind() or
\* rewindToMark() that held non-zero adjoints.
RecordNodeCalled == lastOp = "recordNode" /\ call.op = "recordNode"
\* the list that was b and is u, of blocks of size slots, has given
\* exactly the k slots from addr on, all in one block and past every
\* slot that was in use
Reserved(b, u, size, addr, k) ==
    /\ addr >= BLEnd(b, size)
    /\ addr = BLEnd(b, size) \/ addr = (b.cur + 1) * size
    /\ BLEnd(u, size) = addr + k
    /\ addr \div size = (addr + k - 1) \div size
    /\ u.mark = b.mark
NodeRecorded(b, t, nd, N) ==
    /\ nd.built /\ nd.n = N
    /\ Reserved(b.myNodes, t.myNodes, BLOCKSIZE, hist.last, 1)
    /\ IF N > 0
       THEN /\ Reserved(b.myDers, t.myDers, DATASIZE, nd.pDerivatives, N)
            /\ Reserved(b.myArgPtrs, t.myArgPtrs, DATASIZE, nd.pAdjPtrs, N)
       ELSE t.myDers = b.myDers /\ t.myArgPtrs = b.myArgPtrs
    /\ IF multi
       THEN /\ Reserved(b.myAdjointsMulti, t.myAdjointsMulti, ADJSIZE,
                        nd.pAdjoints, numAdj)
            /\ \A j \in 0 .. (numAdj - 1) : t.adjMem[nd.pAdjoints + j] = 0
       ELSE t.myAdjointsMulti = b.myAdjointsMulti
Thm_C21_RecordNode ==
    RecordNodeCalled =>
        NodeRecorded(call.before, MainTape, MainTape.nodeMem[hist.last],
                     call.N)

\* on a multi tape a node of one argument is recorded after
\* rewindToMark() into adjoint slots that held a non-zero adjoint, and
\* the slots are zero
Wit_C21_ReusedAdjointsZeroed ==
    /\ RecordNodeCalled /\ multi
    /\ hist.reset = "rewindToMark"
    /\ call.N = 1
    /\ \E j \in 0 .. (numAdj - 1) :
           /\ MainTape.nodeMem[hist.last].pAdjoints + j
                  \in DOMAIN call.before.adjMem
           /\ call.before.adjMem[MainTape.nodeMem[hist.last].pAdjoints + j] = 2
           /\ MainTape.adjMem[MainTape.nodeMem[hist.last].pAdjoints + j] = 0

\* ---------------------------------------------------------------------
\* C22: as claimed, propagateMarkToStart() invokes propagation only on
\* nodes recorded before the mark, each exactly once from position
\* mark - 1 down to begin(), and never on a node at or after the mark;
\* and when no node precedes the mark (the mark was set on the empty
\* tape, or no mark was set) it invokes propagation on no node and
\* returns.
BelowMarkOnce ==
    \A i \in 1 .. Len(done) :
        done[i].entry = "propagateMarkToStart" =>
            /\ Descending(done[i].visited, TapeMarkIt(MainTape) - 1,
                          TapeBegin(MainTape))
            /\ \A k \in 1 .. Len(done[i].visited) :
                   /\ done[i].visited[k][1] < TapeMarkIt(MainTape)
                   /\ done[i].visited[k][1] >= TapeBegin(MainTape)
NoNodeBeforeMark ==
    /\ lastOp = "undefined"
    /\ call.op = "propagateMarkToStart"
Orig_C22_MarkToStart ==
    /\ BelowMarkOnce
    /\ NoNodeBeforeMark => call.visited = <<>> /\ call.outcome = "returned"

\* ---------------------------------------------------------------------
\* C23: a reverse sweep (propagateAdjoints in its static and member
\* forms, propagateToStart, propagateToMark, propagateMarkToStart,
\* propagateAdjointsMulti) modifies adjoints only: the number of nodes,
\* the cursors and marks of the lists, the arity, derivatives and
\* argument pointers of every node and the value of every Number are as
\* before it, and no adjoint of a node recorded after the node the sweep
\* starts from is written.
SweepEntries ==
    {"propagateAdjoints", "propagateAdjointsTo", "propagateToStart",
     "propagateToMark", "propagateMarkToStart", "propagateAdjointsMulti"}
SweptOnly ==
    /\ done # <<>>
    /\ \A i \in 1 .. Len(done) : done[i].entry \in SweepEntries
\* the tapes t and u differ in adjoints at most
SameButAdjoints(t, u) ==
    /\ u.era = t.era /\ u.freed = t.freed
    /\ u.myNodes = t.myNodes /\ u.myDers = t.myDers
    /\ u.myArgPtrs = t.myArgPtrs /\ u.myAdjointsMulti = t.myAdjointsMulti
    /\ u.derMem = t.derMem /\ u.argMem = t.argMem
    /\ DOMAIN u.adjMem = DOMAIN t.adjMem
    /\ DOMAIN u.nodeMem = DOMAIN t.nodeMem
    /\ \A a \in DOMAIN t.nodeMem :
           [u.nodeMem[a] EXCEPT !.mAdjoint = 0]
               = [t.nodeMem[a] EXCEPT !.mAdjoint = 0]
\* the adjoints of node q are the same on the tapes t and u
SameAdjoints(t, u, q) ==
    /\ u.nodeMem[q].mAdjoint = t.nodeMem[q].mAdjoint
    /\ multi => \A j \in 0 .. (numAdj - 1) :
                    u.adjMem[t.nodeMem[q].pAdjoints + j]
                        = t.adjMem[t.nodeMem[q].pAdjoints + j]
====
